---- MODULE Spec2Model ----
(***************************************************************************)
(* Live game-scoring engine of ulti-stats: the GameStore (MobX store), the *)
(* scoring handlers of GamesPage and the Firestore service functions they  *)
(* call.  Every `await` on a Firestore call is a separate step of the      *)
(* model: other handlers and other resolutions can run between two awaited *)
(* calls of one operation.  Code that runs between two awaits (and the     *)
(* continuation of the page handler that awaited the store method) is one  *)
(* atomic step, as on the JavaScript event loop.                           *)
(***************************************************************************)
EXTENDS Integers, Sequences, FiniteSets, TLC

\* ------------------------------------------------------------------ bounds
\* Total number of scoring events ever created (document ids 1..MaxEvents).
MaxEvents == 2
\* Number of operator inputs (taps) made while a store operation is still in
\* flight, over one behaviour; all other inputs are made when nothing is
\* in flight.
MaxOverlaps == 1
\* Number of Firestore calls that are allowed to reject in one behaviour.
MaxFailures == 1

\* ------------------------------------------------------------ fixed world
\* The games of the tournament, created and started before the page opens.
GameIds == {"g1"}

NoId == "none"

\* 'none' is the page's sentinel for a skipped assister / scorer.
Skip == "none"

\* useState<string | null>(null): the null value of the scoring flow state.
Null == "null"

HomeTeamOf(g) == IF g = "g1" THEN "T1" ELSE IF g = "g3" THEN "T4" ELSE "T3"

AwayTeamOf(g) == IF g = "g1" THEN "T2" ELSE IF g = "g3" THEN "T2" ELSE "T1"

\* Roster snapshots captured at game creation (playerIds per team).
RosterOfTeam(team) ==
  IF team = "T1" THEN {"p1"}
  ELSE IF team = "T3" THEN {"p4"}
  ELSE IF team = "T4" THEN {"p5", "p6"}
  ELSE {}

Teams == {"T1", "T2", "T3", "T4"}

Players == UNION {RosterOfTeam(t) : t \in Teams}

\* ------------------------------------------------------------ data model
\* Game (types/index.ts): the fields the scoring engine reads and writes.
Game(g, hs, as, st) ==
  [id |-> g, homeTeamId |-> HomeTeamOf(g), awayTeamId |-> AwayTeamOf(g),
   homeScore |-> hs, awayScore |-> as, status |-> st]

\* `null` for Game | null.
NoGame ==
  [id |-> NoId, homeTeamId |-> NoId, awayTeamId |-> NoId,
   homeScore |-> 0, awayScore |-> 0, status |-> "none"]

\* ScoringEvent (types/index.ts).  scorer / assister are Skip when the
\* optional field is absent; createdAt is 0 when the object carries no
\* createdAt (the object createScoringEvent returns).
ScoringEvent(i, g, team, sc, asst, hs, as, at) ==
  [id |-> i, gameId |-> g, teamId |-> team, scorerPlayerId |-> sc,
   assisterPlayerId |-> asst, homeScore |-> hs, awayScore |-> as,
   createdAt |-> at]

NoEvent == ScoringEvent(0, NoId, NoId, Skip, Skip, 0, 0, 0)

NoRet == [op |-> "none"]

NoRoundTrip == [game |-> "none"]

VARIABLES
  \* Firestore collections
  dbGames,        \* games collection: game id -> stored document
  dbEvents,       \* events collection: set of stored event documents
  dbHistory,      \* history collection: set of audit entries
  \* GameStore fields
  games,          \* GameStore.games (keyed by id)
  currentGame,    \* GameStore.currentGame
  events,         \* GameStore.events
  isLoading,      \* GameStore.isLoading
  error,          \* GameStore.error
  \* GamesPage component state
  activeGameView, \* useState<Game | null>
  scoringTeamId,  \* useState<string | null>
  assisterPlayerId, \* useState<string | null | 'none'>
  \* asynchronous operations in flight, oldest first
  tasks,
  nextId,         \* next document id / creation timestamp
  \* history (ghost) variables used to state the properties
  failures,       \* number of Firestore calls that rejected so far
  overlaps,       \* number of inputs made while an operation was in flight
  lastRet,        \* what the operation that returned in the last step did
  roundTrip,      \* held state before the last successful addScoringEvent,
                  \* while no other store operation was called since
  \* Firebase Auth and the AuthStore
  authUser,       \* auth.currentUser
  authStore       \* AuthStore fields: user, isLoading, error

vars ==
  <<dbGames, dbEvents, dbHistory, games, currentGame, events, isLoading,
    error, activeGameView, scoringTeamId, assisterPlayerId, tasks, nextId,
    failures, overlaps, lastRet, roundTrip, authUser, authStore>>

authVars == <<authUser, authStore>>

dbVars == <<dbGames, dbEvents, dbHistory>>

storeVars == <<games, currentGame, events, isLoading, error>>

flowVars == <<scoringTeamId, assisterPlayerId>>

Slots == 1..Len(tasks)

\* ----------------------------------------------------------- pure helpers
\* events.filter((e) => e.teamId === team).length over a sequence
RECURSIVE CountSeq(_, _)
CountSeq(s, team) ==
  IF s = <<>> THEN 0
  ELSE (IF Head(s).teamId = team THEN 1 ELSE 0) + CountSeq(Tail(s), team)

\* the same count over a set of stored documents
CountSet(S, team) == Cardinality({e \in S : e.teamId = team})

\* query(eventsRef, where('gameId', '==', gameId))
EventsOfGame(g) == {e \in dbEvents : e.gameId = g}

\* events.sort((a, b) => a.createdAt.toMillis() - b.createdAt.toMillis())
RECURSIVE SortByCreatedAt(_)
SortByCreatedAt(S) ==
  IF S = {} THEN <<>>
  ELSE LET first == CHOOSE e \in S : \A f \in S : e.createdAt <= f.createdAt
       IN  <<first>> \o SortByCreatedAt(S \ {first})

\* getEventsByGame(gameId)
getEventsByGame(g) == SortByCreatedAt(EventsOfGame(g))

\* { ...game, ...data } for a partial update `data`
Merge(game, data) ==
  [f \in DOMAIN game \cup DOMAIN data |->
     IF f \in DOMAIN data THEN data[f] ELSE game[f]]

Idle == tasks = <<>>

\* an operator input is made now (bounded while something is in flight)
Tap == Idle \/ overlaps < MaxOverlaps

Tapped == IF Idle THEN overlaps ELSE overlaps + 1

\* start task t
Started(t) == Append(tasks, t)

\* task i has returned
Finished(i) == SubSeq(tasks, 1, i - 1) \o SubSeq(tasks, i + 1, Len(tasks))

\* error instanceof Error ? error.message : '...': the rejection's message
ErrorMessage == "rejected"

\* the held state an operation saw when it was called
Held == [game |-> currentGame, events |-> events]

CanFail == failures < MaxFailures

\* ------------------------------------------------------------ accounts
\* `null` for User | null
NoUser == "nobody"

\* Google accounts that can come out of the sign-in popup
Users == {"ann", "bob", "cat"}

\* user.email
EmailOf(u) ==
  CASE u = "ann" -> "Ann@club.org"
    [] u = "bob" -> "bob@club.org"
    [] u = "cat" -> "cat@club.org"

\* email.toLowerCase()
ToLowerCase(email) == IF email = "Ann@club.org" THEN "ann@club.org" ELSE email

\* the document ids of the allowedEmails collection
AllowedEmails == {"ann@club.org", "Cat@club.org"}

\* the scorekeeper is signed in with an allowed account
SignedIn ==
  /\ authUser = "ann"
  /\ authStore = [user |-> "ann", isLoading |-> FALSE, error |-> Null]

\* ------------------------------------------------------------------- Init
Init ==
  /\ dbGames = [g \in GameIds |-> Game(g, 0, 0, "in_progress")]
  /\ dbEvents = {}
  /\ dbHistory = {}
  /\ games = [g \in GameIds |-> Game(g, 0, 0, "in_progress")]
  /\ currentGame = NoGame
  /\ events = <<>>
  /\ isLoading = FALSE
  /\ error = Null
  /\ activeGameView = NoGame
  /\ scoringTeamId = Null
  /\ assisterPlayerId = Null
  /\ tasks = <<>>
  /\ nextId = 1
  /\ failures = 0
  /\ overlaps = 0
  /\ lastRet = NoRet
  /\ roundTrip = NoRoundTrip
  /\ SignedIn

\* a second game of the same tournament, also started
OtherGameIds == {"g2"}

\* the state after construction when the tournament has two started games
InitTwoGames ==
  /\ dbGames = [g \in GameIds \cup OtherGameIds |-> Game(g, 0, 0, "in_progress")]
  /\ dbEvents = {}
  /\ dbHistory = {}
  /\ games = [g \in GameIds \cup OtherGameIds |-> Game(g, 0, 0, "in_progress")]
  /\ currentGame = NoGame
  /\ events = <<>>
  /\ isLoading = FALSE
  /\ error = Null
  /\ activeGameView = NoGame
  /\ scoringTeamId = Null
  /\ assisterPlayerId = Null
  /\ tasks = <<>>
  /\ nextId = 1
  /\ failures = 0
  /\ overlaps = 0
  /\ lastRet = NoRet
  /\ roundTrip = NoRoundTrip
  /\ SignedIn

\* ------------------------------------------------- opening / closing view
\* handleViewGame(game) -> gameStore.setCurrentGame(game) -> loadEvents(id)
handleViewGame(g) ==
  /\ Tap
  /\ activeGameView = NoGame
  /\ games[g].status \in {"in_progress", "completed"}
  /\ currentGame' = games[g]
  /\ activeGameView' = games[g]
  /\ tasks' = Started([kind |-> "load", pc |-> "getDocs", gameId |-> g])
  /\ overlaps' = Tapped
  /\ lastRet' = NoRet
  /\ roundTrip' = NoRoundTrip
  /\ UNCHANGED <<dbVars, games, events, isLoading, error, flowVars, nextId,
                 failures>>
  /\ UNCHANGED authVars

\* loadEvents: getEventsByGame resolved
loadEventsResolve(i) ==
  /\ tasks[i].kind = "load"
  /\ events' = getEventsByGame(tasks[i].gameId)
  /\ tasks' = Finished(i)
  /\ lastRet' = [op |-> "load", ok |-> TRUE]
  /\ UNCHANGED <<dbVars, games, currentGame, isLoading, error,
                 activeGameView, flowVars, nextId, failures, overlaps,
                 roundTrip>>
  /\ UNCHANGED authVars

\* loadEvents: getEventsByGame rejected
loadEventsReject(i) ==
  /\ tasks[i].kind = "load"
  /\ CanFail
  /\ failures' = failures + 1
  /\ error' = ErrorMessage
  /\ tasks' = Finished(i)
  /\ lastRet' = [op |-> "load", ok |-> FALSE]
  /\ UNCHANGED <<dbVars, games, currentGame, events, isLoading,
                 activeGameView, flowVars, nextId, overlaps, roundTrip>>
  /\ UNCHANGED authVars

\* "Back to Games": setActiveGameView(null)
backToGames ==
  /\ Tap
  /\ activeGameView # NoGame
  /\ activeGameView' = NoGame
  /\ UNCHANGED tasks
  /\ overlaps' = Tapped
  /\ lastRet' = NoRet
  /\ UNCHANGED <<dbVars, storeVars, flowVars, nextId, failures, roundTrip>>
  /\ UNCHANGED authVars

\* ------------------------------------------------ scoring interaction flow
ScoringViewOpen ==
  activeGameView # NoGame /\ activeGameView.status = "in_progress"

\* faulty variant of HasCurrentRoster: any remembered team has a roster
HasCurrentRosterAnyTeam == scoringTeamId # Null

\* currentRoster of the scoring view: null when scoringTeamId is neither team
HasCurrentRoster ==
  scoringTeamId \in {activeGameView.homeTeamId, activeGameView.awayTeamId}

\* Step 1 buttons: setScoringTeamId(homeTeamId | awayTeamId)
selectTeam(team) ==
  /\ Tap
  /\ ScoringViewOpen
  /\ scoringTeamId = Null
  /\ team \in {activeGameView.homeTeamId, activeGameView.awayTeamId}
  /\ scoringTeamId' = team
  /\ UNCHANGED tasks
  /\ overlaps' = Tapped
  /\ lastRet' = NoRet
  /\ UNCHANGED <<dbVars, storeVars, activeGameView, assisterPlayerId,
                 nextId, failures, roundTrip>>
  /\ UNCHANGED authVars

\* Step 2 "Change team": setScoringTeamId(null)
changeTeam ==
  /\ Tap
  /\ ScoringViewOpen
  /\ scoringTeamId # Null /\ assisterPlayerId = Null /\ HasCurrentRoster
  /\ scoringTeamId' = Null
  /\ UNCHANGED tasks
  /\ overlaps' = Tapped
  /\ lastRet' = NoRet
  /\ UNCHANGED <<dbVars, storeVars, activeGameView, assisterPlayerId,
                 nextId, failures, roundTrip>>
  /\ UNCHANGED authVars

\* Step 2 player buttons and "No Assist (Skip)": setAssisterPlayerId(p | 'none')
selectAssister(p) ==
  /\ Tap
  /\ ScoringViewOpen
  /\ scoringTeamId # Null /\ assisterPlayerId = Null /\ HasCurrentRoster
  /\ p \in RosterOfTeam(scoringTeamId) \cup {Skip}
  /\ assisterPlayerId' = p
  /\ UNCHANGED tasks
  /\ overlaps' = Tapped
  /\ lastRet' = NoRet
  /\ UNCHANGED <<dbVars, storeVars, activeGameView, scoringTeamId,
                 nextId, failures, roundTrip>>
  /\ UNCHANGED authVars

\* faulty variant of changeAssister: the flow goes back to step 1
changeAssisterToStart ==
  /\ Tap
  /\ ScoringViewOpen
  /\ scoringTeamId # Null /\ assisterPlayerId # Null /\ HasCurrentRoster
  /\ assisterPlayerId' = Null
  /\ scoringTeamId' = Null
  /\ UNCHANGED tasks
  /\ overlaps' = Tapped
  /\ lastRet' = NoRet
  /\ UNCHANGED <<dbVars, storeVars, activeGameView, nextId, failures,
                 roundTrip>>
  /\ UNCHANGED authVars

\* Step 3 "Change assister": setAssisterPlayerId(null)
changeAssister ==
  /\ Tap
  /\ ScoringViewOpen
  /\ scoringTeamId # Null /\ assisterPlayerId # Null /\ HasCurrentRoster
  /\ assisterPlayerId' = Null
  /\ UNCHANGED tasks
  /\ overlaps' = Tapped
  /\ lastRet' = NoRet
  /\ UNCHANGED <<dbVars, storeVars, activeGameView, scoringTeamId,
                 nextId, failures, roundTrip>>
  /\ UNCHANGED authVars

\* faulty variant of ScorerCandidates: the chosen assister is still offered
ScorerCandidatesUnfiltered ==
  RosterOfTeam(scoringTeamId) \cup {Skip}

\* the scorer buttons offered in step 3
ScorerCandidates ==
  {p \in RosterOfTeam(scoringTeamId) :
     assisterPlayerId = Skip \/ p # assisterPlayerId} \cup {Skip}

\* roster.find((p) => p.playerId === id), undefined -> field absent
FindInRoster(roster, id) == IF id \in roster THEN id ELSE Skip

\* faulty variant of ScoreData: the remembered assister is not carried
ScoreDataNoAssister(goalScorerPlayerId) ==
  LET isHomeTeam == scoringTeamId = activeGameView.homeTeamId
      roster == IF isHomeTeam THEN RosterOfTeam(activeGameView.homeTeamId)
                ELSE RosterOfTeam(activeGameView.awayTeamId)
      scorer == IF goalScorerPlayerId # Skip
                THEN FindInRoster(roster, goalScorerPlayerId) ELSE Skip
      newHomeScore == IF isHomeTeam THEN activeGameView.homeScore + 1
                      ELSE activeGameView.homeScore
      newAwayScore == IF ~isHomeTeam THEN activeGameView.awayScore + 1
                      ELSE activeGameView.awayScore
  IN  ScoringEvent(nextId, activeGameView.id, scoringTeamId, scorer,
                   Skip, newHomeScore, newAwayScore, nextId)

\* the CreateScoringEventData built by handleScorePoint
ScoreData(goalScorerPlayerId) ==
  LET isHomeTeam == scoringTeamId = activeGameView.homeTeamId
      roster == IF isHomeTeam THEN RosterOfTeam(activeGameView.homeTeamId)
                ELSE RosterOfTeam(activeGameView.awayTeamId)
      scorer == IF goalScorerPlayerId # Skip
                THEN FindInRoster(roster, goalScorerPlayerId) ELSE Skip
      assister == IF assisterPlayerId # Null /\ assisterPlayerId # Skip
                  THEN FindInRoster(roster, assisterPlayerId) ELSE Skip
      newHomeScore == IF isHomeTeam THEN activeGameView.homeScore + 1
                      ELSE activeGameView.homeScore
      newAwayScore == IF ~isHomeTeam THEN activeGameView.awayScore + 1
                      ELSE activeGameView.awayScore
  IN  ScoringEvent(nextId, activeGameView.id, scoringTeamId, scorer,
                   assister, newHomeScore, newAwayScore, nextId)

StepThreeShown ==
  /\ ScoringViewOpen
  /\ scoringTeamId # Null /\ assisterPlayerId # Null /\ HasCurrentRoster

\* handleScorePoint -> addScoringEvent -> createScoringEvent up to the first
\* await (addDoc issued).
handleScorePoint(p) ==
  /\ Tap
  /\ StepThreeShown
  /\ p \in ScorerCandidates
  /\ currentGame # NoGame
  /\ nextId <= MaxEvents
  /\ tasks' = Started([kind |-> "add", pc |-> "addDoc", data |-> ScoreData(p),
                       game |-> currentGame, view |-> activeGameView,
                       pre |-> Held])
  /\ nextId' = nextId + 1
  /\ overlaps' = Tapped
  /\ lastRet' = NoRet
  /\ roundTrip' = NoRoundTrip
  /\ UNCHANGED <<dbVars, storeVars, activeGameView, flowVars, failures>>
  /\ UNCHANGED authVars

\* handleScorePoint when addScoringEvent returns null at its guard
\* (`if (!this.currentGame) return null`): only the flow is reset.
handleScorePointNoGame(p) ==
  /\ Tap
  /\ StepThreeShown
  /\ p \in ScorerCandidates
  /\ currentGame = NoGame
  /\ scoringTeamId' = Null
  /\ assisterPlayerId' = Null
  /\ UNCHANGED tasks
  /\ overlaps' = Tapped
  /\ lastRet' = [op |-> "add", ok |-> FALSE, guarded |-> TRUE,
                 at |-> "guard",
                 event |-> NoEvent, pre |-> Held]
  /\ roundTrip' = NoRoundTrip
  /\ UNCHANGED <<dbVars, storeVars, activeGameView, nextId, failures>>
  /\ UNCHANGED authVars

\* createScoringEvent: addDoc(eventsRef, withTimestamps(data)) resolved
addDocResolve(i) ==
  /\ tasks[i].kind = "add" /\ tasks[i].pc = "addDoc"
  /\ dbEvents' = dbEvents \cup {tasks[i].data}
  /\ tasks' = [tasks EXCEPT ![i].pc = "updateDoc"]
  /\ lastRet' = NoRet
  /\ UNCHANGED <<dbGames, dbHistory, storeVars, activeGameView, flowVars,
                 nextId, failures, overlaps, roundTrip>>
  /\ UNCHANGED authVars

\* the score fields createScoringEvent writes to the game document
AddScoreUpdate(data, game) ==
  LET isHomeTeam == data.teamId = game.homeTeamId
  IN  [homeScore |-> IF isHomeTeam THEN data.homeScore ELSE game.homeScore,
       awayScore |-> IF ~isHomeTeam THEN data.awayScore ELSE game.awayScore]

\* createScoringEvent: updateDoc(doc(gamesRef, game.id), {...}) resolved
addUpdateDocResolve(i) ==
  /\ tasks[i].kind = "add" /\ tasks[i].pc = "updateDoc"
  /\ dbGames' = [dbGames EXCEPT ![tasks[i].game.id] =
                   Merge(@, AddScoreUpdate(tasks[i].data, tasks[i].game))]
  /\ tasks' = [tasks EXCEPT ![i].pc = "history"]
  /\ lastRet' = NoRet
  /\ UNCHANGED <<dbEvents, dbHistory, storeVars, activeGameView, flowVars,
                 nextId, failures, overlaps, roundTrip>>
  /\ UNCHANGED authVars

\* createHistoryEntry(action, 'event', id, ...): the audit document
HistoryEntry(action, event) ==
  [action |-> action, entityType |-> "event", entityId |-> event.id,
   snapshot |-> event.id, gameId |-> event.gameId]

\* const created = { id: docRef.id, ...data }: no createdAt on the object
Created(data) == [data EXCEPT !.createdAt = 0]

\* faulty variant of AddHeldGame: only the home score is copied
AddHeldGameHomeOnly(game, data) ==
  Merge(game, [homeScore |-> data.homeScore])

\* the held score addScoringEvent installs
AddHeldGame(game, data) ==
  Merge(game, [homeScore |-> data.homeScore, awayScore |-> data.awayScore])

\* createScoringEvent: createHistoryEntry resolved; createScoringEvent
\* returns, addScoringEvent's runInAction runs, handleScorePoint continues.
addResolve(i) ==
  /\ tasks[i].kind = "add" /\ tasks[i].pc = "history"
  /\ LET data == tasks[i].data
         newCurrent == AddHeldGame(currentGame, data)
     IN  /\ dbHistory' = dbHistory \cup {HistoryEntry("create", data)}
         /\ events' = Append(events, Created(data))
         /\ IF currentGame # NoGame
            THEN /\ currentGame' = newCurrent
                 /\ games' = IF currentGame.id \in DOMAIN games
                             THEN [games EXCEPT ![currentGame.id] = newCurrent]
                             ELSE games
            ELSE UNCHANGED <<currentGame, games>>
         /\ activeGameView' =
              Merge(tasks[i].view, [homeScore |-> data.homeScore,
                                    awayScore |-> data.awayScore])
         /\ lastRet' = [op |-> "add", ok |-> TRUE, guarded |-> FALSE,
                        at |-> "none",
                        event |-> Created(data), pre |-> tasks[i].pre]
  /\ scoringTeamId' = Null
  /\ assisterPlayerId' = Null
  /\ roundTrip' = IF overlaps = 0 THEN tasks[i].pre ELSE NoRoundTrip
  /\ tasks' = Finished(i)
  /\ UNCHANGED <<dbGames, dbEvents, isLoading, error, nextId, failures,
                 overlaps>>
  /\ UNCHANGED authVars

\* faulty variant of addReject: the event was pushed before the write was
\* confirmed and the catch block does not take it back
addRejectKeepsPush(i) ==
  /\ tasks[i].kind = "add"
  /\ CanFail
  /\ failures' = failures + 1
  /\ error' = ErrorMessage
  /\ events' = Append(events, Created(tasks[i].data))
  /\ scoringTeamId' = Null
  /\ assisterPlayerId' = Null
  /\ tasks' = Finished(i)
  /\ lastRet' = [op |-> "add", ok |-> FALSE, guarded |-> FALSE,
                 at |-> tasks[i].pc,
                 event |-> NoEvent, pre |-> tasks[i].pre]
  /\ UNCHANGED <<dbVars, games, currentGame, isLoading,
                 activeGameView, nextId, overlaps, roundTrip>>
  /\ UNCHANGED authVars

\* any of the three awaited calls of createScoringEvent rejected: the catch
\* block of addScoringEvent runs and handleScorePoint resets the flow.
addReject(i) ==
  /\ tasks[i].kind = "add"
  /\ CanFail
  /\ failures' = failures + 1
  /\ error' = ErrorMessage
  /\ scoringTeamId' = Null
  /\ assisterPlayerId' = Null
  /\ tasks' = Finished(i)
  /\ lastRet' = [op |-> "add", ok |-> FALSE, guarded |-> FALSE,
                 at |-> tasks[i].pc,
                 event |-> NoEvent, pre |-> tasks[i].pre]
  /\ UNCHANGED <<dbVars, games, currentGame, events, isLoading,
                 activeGameView, nextId, overlaps, roundTrip>>
  /\ UNCHANGED authVars

\* --------------------------------------------------------------- undo
\* the held game after undoLastEvent recounts the held log
UndoHeldGame(game, evs) ==
  Merge(game, [homeScore |-> CountSeq(evs, game.homeTeamId),
               awayScore |-> CountSeq(evs, game.awayTeamId)])

\* faulty variant of UndoGuard: the held game is not checked
UndoGuardLogOnly == Len(events) = 0

\* the guard of undoLastEvent
UndoGuard == currentGame = NoGame \/ Len(events) = 0

\* Undo button (disabled when the held log is empty) -> handleUndo ->
\* undoLastEvent -> deleteScoringEvent up to its first await (deleteDoc).
handleUndo ==
  /\ Tap
  /\ ScoringViewOpen
  /\ Len(events) # 0
  /\ ~UndoGuard
  /\ tasks' = Started([kind |-> "undo", pc |-> "deleteDoc",
                       event |-> events[Len(events)], game |-> currentGame,
                       homeScore |-> 0, awayScore |-> 0,
                       pre |-> Held, rt |-> roundTrip])
  /\ overlaps' = Tapped
  /\ lastRet' = NoRet
  /\ roundTrip' = NoRoundTrip
  /\ UNCHANGED <<dbVars, storeVars, activeGameView, flowVars, nextId,
                 failures>>
  /\ UNCHANGED authVars

\* Undo button -> handleUndo -> undoLastEvent returns false at its guard
handleUndoGuarded ==
  /\ Tap
  /\ ScoringViewOpen
  /\ Len(events) # 0
  /\ UndoGuard
  /\ UNCHANGED tasks
  /\ overlaps' = Tapped
  /\ lastRet' = [op |-> "undo", ok |-> FALSE, guarded |-> TRUE,
                 at |-> "guard",
                 event |-> NoEvent, pre |-> Held]
  /\ roundTrip' = NoRoundTrip
  /\ UNCHANGED <<dbVars, storeVars, activeGameView, flowVars, nextId,
                 failures>>
  /\ UNCHANGED authVars

\* deleteScoringEvent: deleteDoc(doc(eventsRef, event.id)) resolved
undoDeleteDocResolve(i) ==
  /\ tasks[i].kind = "undo" /\ tasks[i].pc = "deleteDoc"
  /\ dbEvents' = {e \in dbEvents : e.id # tasks[i].event.id}
  /\ tasks' = [tasks EXCEPT ![i].pc = "getDocs"]
  /\ lastRet' = NoRet
  /\ UNCHANGED <<dbGames, dbHistory, storeVars, activeGameView, flowVars,
                 nextId, failures, overlaps, roundTrip>>
  /\ UNCHANGED authVars

\* deleteScoringEvent: getEventsByGame(game.id) resolved, scores recounted
undoGetDocsResolve(i) ==
  /\ tasks[i].kind = "undo" /\ tasks[i].pc = "getDocs"
  /\ LET remainingEvents == getEventsByGame(tasks[i].game.id)
     IN  tasks' = [tasks EXCEPT
           ![i].pc = "updateDoc",
           ![i].homeScore = CountSeq(remainingEvents, tasks[i].game.homeTeamId),
           ![i].awayScore = CountSeq(remainingEvents, tasks[i].game.awayTeamId)]
  /\ lastRet' = NoRet
  /\ UNCHANGED <<dbVars, storeVars, activeGameView, flowVars, nextId,
                 failures, overlaps, roundTrip>>
  /\ UNCHANGED authVars

\* deleteScoringEvent: updateDoc(doc(gamesRef, game.id), {...}) resolved
undoUpdateDocResolve(i) ==
  /\ tasks[i].kind = "undo" /\ tasks[i].pc = "updateDoc"
  /\ dbGames' = [dbGames EXCEPT ![tasks[i].game.id] =
                   Merge(@, [homeScore |-> tasks[i].homeScore,
                             awayScore |-> tasks[i].awayScore])]
  /\ tasks' = [tasks EXCEPT ![i].pc = "history"]
  /\ lastRet' = NoRet
  /\ UNCHANGED <<dbEvents, dbHistory, storeVars, activeGameView, flowVars,
                 nextId, failures, overlaps, roundTrip>>
  /\ UNCHANGED authVars

\* events.pop()
Pop(evs) == IF evs = <<>> THEN evs ELSE SubSeq(evs, 1, Len(evs) - 1)

\* deleteScoringEvent: createHistoryEntry resolved; undoLastEvent's
\* runInAction runs and handleUndo copies the store's game into the view.
undoResolve(i) ==
  /\ tasks[i].kind = "undo" /\ tasks[i].pc = "history"
  /\ LET popped == Pop(events)
         newCurrent == UndoHeldGame(currentGame, popped)
     IN  /\ dbHistory' = dbHistory \cup {HistoryEntry("delete", tasks[i].event)}
         /\ events' = popped
         /\ IF currentGame # NoGame
            THEN /\ currentGame' = newCurrent
                 /\ games' = IF currentGame.id \in DOMAIN games
                             THEN [games EXCEPT ![currentGame.id] = newCurrent]
                             ELSE games
                 /\ activeGameView' = newCurrent
            ELSE UNCHANGED <<currentGame, games, activeGameView>>
  /\ tasks' = Finished(i)
  /\ lastRet' = [op |-> "undo", ok |-> TRUE, guarded |-> FALSE,
                 at |-> "none",
                 event |-> tasks[i].event, pre |-> tasks[i].pre,
                 rt |-> tasks[i].rt]
  /\ UNCHANGED <<dbGames, dbEvents, isLoading, error, flowVars, nextId,
                 failures, overlaps, roundTrip>>
  /\ UNCHANGED authVars

\* any of the four awaited calls of deleteScoringEvent rejected: the catch
\* block of undoLastEvent runs, handleUndo does nothing.
undoReject(i) ==
  /\ tasks[i].kind = "undo"
  /\ CanFail
  /\ failures' = failures + 1
  /\ error' = ErrorMessage
  /\ tasks' = Finished(i)
  /\ lastRet' = [op |-> "undo", ok |-> FALSE, guarded |-> FALSE,
                 at |-> tasks[i].pc,
                 event |-> NoEvent, pre |-> tasks[i].pre]
  /\ UNCHANGED <<dbVars, games, currentGame, events, isLoading,
                 activeGameView, flowVars, nextId, overlaps, roundTrip>>
  /\ UNCHANGED authVars

\* ---------------------------------------------------- End Game / updateGame
\* createHistoryEntry(action, 'game', id, ...)
GameHistoryEntry(action, id, data) ==
  [action |-> action, entityType |-> "game", entityId |-> id,
   snapshot |-> id]

\* "End Game" -> handleEndGame -> updateGame(id, {status: 'completed'}) up to
\* the first await of firestoreService.updateGame (updateDoc).
handleEndGame ==
  /\ Tap
  /\ ScoringViewOpen
  /\ activeGameView.id \in DOMAIN games
  /\ isLoading' = TRUE
  /\ error' = Null
  /\ tasks' = Started([kind |-> "update", pc |-> "updateDoc",
                       id |-> activeGameView.id,
                       data |-> [status |-> "completed"],
                       game |-> games[activeGameView.id]])
  /\ overlaps' = Tapped
  /\ lastRet' = NoRet
  /\ roundTrip' = NoRoundTrip
  /\ UNCHANGED <<dbVars, games, currentGame, events, activeGameView,
                 flowVars, nextId, failures>>
  /\ UNCHANGED authVars

\* firestoreService.updateGame: updateDoc(docRef, withUpdatedAt(data)) resolved
updateDocResolve(i) ==
  /\ tasks[i].kind = "update" /\ tasks[i].pc = "updateDoc"
  /\ dbGames' = [dbGames EXCEPT ![tasks[i].id] = Merge(@, tasks[i].data)]
  /\ tasks' = [tasks EXCEPT ![i].pc = "history"]
  /\ lastRet' = NoRet
  /\ UNCHANGED <<dbEvents, dbHistory, storeVars, activeGameView, flowVars,
                 nextId, failures, overlaps, roundTrip>>
  /\ UNCHANGED authVars

\* firestoreService.updateGame: createHistoryEntry resolved; updateGame's
\* runInAction and finally run; handleEndGame closes the view and calls
\* setCurrentGame(null).
endGameResolve(i) ==
  /\ tasks[i].kind = "update" /\ tasks[i].pc = "history"
  /\ dbHistory' = dbHistory \cup
                    {GameHistoryEntry("update", tasks[i].id, tasks[i].data)}
  /\ games' = IF tasks[i].id \in DOMAIN games
              THEN [games EXCEPT ![tasks[i].id] =
                      Merge(tasks[i].game, tasks[i].data)]
              ELSE games
  /\ isLoading' = FALSE
  /\ activeGameView' = NoGame
  /\ currentGame' = NoGame
  /\ events' = <<>>
  /\ tasks' = Finished(i)
  /\ lastRet' = [op |-> "update", ok |-> TRUE]
  /\ UNCHANGED <<dbGames, dbEvents, error, flowVars, nextId, failures,
                 overlaps, roundTrip>>
  /\ UNCHANGED authVars

\* either awaited call of firestoreService.updateGame rejected: catch and
\* finally of updateGame run, handleEndGame does nothing.
updateReject(i) ==
  /\ tasks[i].kind = "update"
  /\ CanFail
  /\ failures' = failures + 1
  /\ error' = ErrorMessage
  /\ isLoading' = FALSE
  /\ tasks' = Finished(i)
  /\ lastRet' = [op |-> "update", ok |-> FALSE]
  /\ UNCHANGED <<dbVars, games, currentGame, events, activeGameView,
                 flowVars, nextId, overlaps, roundTrip>>
  /\ UNCHANGED authVars

\* ------------------------------------------------------------ environments
\* taps of the scoring flow: they call no store method
FlowTaps ==
  \/ \E team \in Teams : selectTeam(team)
  \/ changeTeam
  \/ \E p \in Players \cup {Skip} : selectAssister(p)
  \/ changeAssister

\* taps that call a store method which passes its guard, and navigation
Calls ==
  \/ \E g \in DOMAIN games : handleViewGame(g)
  \/ backToGames
  \/ \E p \in Players \cup {Skip} : handleScorePoint(p)
  \/ handleUndo
  \/ handleEndGame

\* taps that call a store method which returns at its guard
GuardedCalls ==
  \/ \E p \in Players \cup {Skip} : handleScorePointNoGame(p)
  \/ handleUndoGuarded

\* an awaited Firestore call resolves
Resolves ==
  \/ \E i \in Slots : loadEventsResolve(i)
  \/ \E i \in Slots : addDocResolve(i)
  \/ \E i \in Slots : addUpdateDocResolve(i)
  \/ \E i \in Slots : addResolve(i)
  \/ \E i \in Slots : undoDeleteDocResolve(i)
  \/ \E i \in Slots : undoGetDocsResolve(i)
  \/ \E i \in Slots : undoUpdateDocResolve(i)
  \/ \E i \in Slots : undoResolve(i)
  \/ \E i \in Slots : updateDocResolve(i)
  \/ \E i \in Slots : endGameResolve(i)

\* an awaited Firestore call rejects
Rejects ==
  \/ \E i \in Slots : loadEventsReject(i)
  \/ \E i \in Slots : addReject(i)
  \/ \E i \in Slots : undoReject(i)
  \/ \E i \in Slots : updateReject(i)

\* The page as the browser runs it: any tap at any time, every awaited call
\* may resolve or reject.
Next == FlowTaps \/ Calls \/ GuardedCalls \/ Resolves \/ Rejects

Spec == Init /\ [][Next]_vars

\* The operator waits for every operation to return before the next tap;
\* awaited calls may reject.  (The store guards are then never met from the
\* page: the view is only open while a game is current.)
SequentialNext ==
  \/ Idle /\ \E team \in Teams : selectTeam(team)
  \/ Idle /\ changeTeam
  \/ Idle /\ \E p \in Players \cup {Skip} : selectAssister(p)
  \/ Idle /\ changeAssister
  \/ Idle /\ \E g \in DOMAIN games : handleViewGame(g)
  \/ Idle /\ backToGames
  \/ Idle /\ \E p \in Players \cup {Skip} : handleScorePoint(p)
  \/ Idle /\ handleUndo
  \/ Idle /\ handleEndGame
  \/ Resolves
  \/ Rejects

SpecSequential == Init /\ [][SequentialNext]_vars

\* only addScoringEvent / undoLastEvent calls are in flight
OnlyScoringInFlight ==
  \A i \in DOMAIN tasks : tasks[i].kind \in {"add", "undo"}

\* Rapid-fire scoring: scorer and Undo taps are made without waiting for the
\* previous addScoringEvent / undoLastEvent to return; every other tap is
\* made with nothing in flight, and every awaited call resolves.
RapidTapsNext ==
  \/ Idle /\ \E team \in Teams : selectTeam(team)
  \/ Idle /\ changeTeam
  \/ Idle /\ \E p \in Players \cup {Skip} : selectAssister(p)
  \/ Idle /\ changeAssister
  \/ Idle /\ \E g \in DOMAIN games : handleViewGame(g)
  \/ Idle /\ backToGames
  \/ OnlyScoringInFlight /\ \E p \in Players \cup {Skip} : handleScorePoint(p)
  \/ OnlyScoringInFlight /\ handleUndo
  \/ Idle /\ handleEndGame
  \/ Resolves

SpecRapidTaps == Init /\ [][RapidTapsNext]_vars

\* The buttons of the scoring view (scorer, Undo, End Game) are tapped
\* without waiting for a pending addScoringEvent / undoLastEvent; every other
\* tap is made with nothing in flight, and every awaited call resolves.
\* (An add that returns after End Game reopens the view with no current
\* game: the store guards are then met from the page.)
ScoringViewNext ==
  \/ Idle /\ \E team \in Teams : selectTeam(team)
  \/ Idle /\ changeTeam
  \/ Idle /\ \E p \in Players \cup {Skip} : selectAssister(p)
  \/ Idle /\ changeAssister
  \/ Idle /\ \E g \in DOMAIN games : handleViewGame(g)
  \/ Idle /\ backToGames
  \/ OnlyScoringInFlight /\ \E p \in Players \cup {Skip} : handleScorePoint(p)
  \/ OnlyScoringInFlight /\ handleUndo
  \/ OnlyScoringInFlight /\ handleEndGame
  \/ Idle /\ \E p \in Players \cup {Skip} : handleScorePointNoGame(p)
  \/ Idle /\ handleUndoGuarded
  \/ Resolves

SpecScoringView == Init /\ [][ScoringViewNext]_vars

\* two started games, the operator waits for every operation to return
SpecTwoGames == InitTwoGames /\ [][SequentialNext]_vars

\* ======================================================= checked properties
\* the held score equals the per-team counts of the held log
HeldScoreMatchesLog ==
  /\ currentGame.homeScore = CountSeq(events, currentGame.homeTeamId)
  /\ currentGame.awayScore = CountSeq(events, currentGame.awayTeamId)

\* the stored score of game g equals the per-team counts of its stored events
StoredScoreMatchesLog(g) ==
  /\ dbGames[g].homeScore = CountSet(EventsOfGame(g), dbGames[g].homeTeamId)
  /\ dbGames[g].awayScore = CountSet(EventsOfGame(g), dbGames[g].awayTeamId)

AddsInFlight == {i \in DOMAIN tasks : tasks[i].kind = "add"}

\* events of e's game created up to and including e that team scored
ScoredUpTo(e, team) ==
  Cardinality({f \in EventsOfGame(e.gameId) :
                 f.createdAt <= e.createdAt /\ f.teamId = team})

\* C1: when every operation was called with nothing in flight and no
\* persistence call failed, then with all operations returned the held
\* game's homeScore / awayScore are the per-team counts of the held log.
C1_SequentialHeldScore ==
  (Idle /\ overlaps = 0 /\ failures = 0 /\ currentGame # NoGame)
    => HeldScoreMatchesLog

\* C1 witness: a point was scored for each team, in sequence and without
\* failure, and the second one was undone.
C1_Witness ==
  /\ Idle /\ overlaps = 0 /\ failures = 0 /\ currentGame # NoGame
  /\ lastRet.op = "undo" /\ lastRet.ok
  /\ Len(events) = 1
  /\ lastRet.event.teamId # events[1].teamId

\* C2: whenever a game document can be read, its stored homeScore / awayScore
\* are the per-team counts of the stored events of that game.
C2_StoredScoreNeverStale == \A g \in DOMAIN dbGames : StoredScoreMatchesLog(g)

\* C3: when scorer / Undo taps were made while an addScoringEvent or
\* undoLastEvent was still in flight, then once all calls have resolved the
\* held score is the per-team count of the held log.
C3_RapidTapsHeldScore ==
  (Idle /\ failures = 0 /\ currentGame # NoGame) => HeldScoreMatchesLog

\* C4: at most one addScoringEvent is in flight at any time.
C4_SingleAddInFlight == Cardinality(AddsInFlight) <= 1

\* C5: after add and undo operations that all succeeded, every stored event's
\* snapshot is the per-team count of the events of its game created up to and
\* including it.
C5_SnapshotsMatchReplay ==
  (Idle /\ failures = 0) =>
    \A e \in dbEvents :
      /\ e.homeScore = ScoredUpTo(e, dbGames[e.gameId].homeTeamId)
      /\ e.awayScore = ScoredUpTo(e, dbGames[e.gameId].awayTeamId)

C7_AddReturnAgrees ==
  (lastRet.op = "add" /\ lastRet.ok /\ Idle /\ currentGame # NoGame) =>
    LET e == lastRet.event
    IN  /\ currentGame.homeScore = e.homeScore
        /\ currentGame.awayScore = e.awayScore
        /\ dbGames[e.gameId].homeScore = e.homeScore
        /\ dbGames[e.gameId].awayScore = e.awayScore

\* C8: when undoLastEvent has returned true and nothing is in flight, the
\* event it deleted is in neither the stored nor the held log, and the held
\* and the stored score are the per-team counts of the remaining held /
\* stored events.
C8_UndoRecounts ==
  (lastRet.op = "undo" /\ lastRet.ok /\ Idle /\ currentGame # NoGame) =>
    /\ \A e \in dbEvents : e.id # lastRet.event.id
    /\ \A k \in DOMAIN events : events[k].id # lastRet.event.id
    /\ HeldScoreMatchesLog
    /\ StoredScoreMatchesLog(lastRet.pre.game.id)

\* C9: a successful addScoringEvent directly followed by a successful
\* undoLastEvent leaves the held game and the held log as they were before
\* the add.
C9_AddUndoRoundTrip ==
  (lastRet.op = "undo" /\ lastRet.ok /\ lastRet.rt # NoRoundTrip)
    => Held = lastRet.rt

\* undoLastEvent is called in this step
UndoCalled ==
  \/ lastRet'.op = "undo" /\ lastRet'.guarded
  \/ /\ Len(tasks') = Len(tasks) + 1
     /\ tasks'[Len(tasks')].kind = "undo"

LatestStored(g) ==
  {e \in EventsOfGame(g) : \A f \in EventsOfGame(g) : f.createdAt <= e.createdAt}

\* undoLastEvent calls that have just been made (deleteDoc not yet applied)
UndosJustCalled ==
  {i \in DOMAIN tasks : tasks[i].kind = "undo" /\ tasks[i].pc = "deleteDoc"}

\* C11: whenever undoLastEvent sets out to delete an event that is stored, it
\* is the stored event of the current game with the greatest createdAt.
C11_UndoDeletesLatestStored ==
  \A i \in UndosJustCalled :
    \A e \in EventsOfGame(tasks[i].game.id) :
      e.id = tasks[i].event.id => e \in LatestStored(tasks[i].game.id)

\* C12: every event of the held log belongs to the current game, and the held
\* log is empty when no game is current.
C12_HeldLogBelongsToCurrentGame ==
  /\ \A k \in DOMAIN events : events[k].gameId = currentGame.id
  /\ currentGame = NoGame => events = <<>>

\* C13: when only the history write of createScoringEvent / deleteScoringEvent
\* rejected, addScoringEvent still returns the created event and
\* undoLastEvent still returns true.
C13_HistoryFailureTolerated ==
  (lastRet.op \in {"add", "undo"} /\ lastRet.at = "history") => lastRet.ok

\* C14: when a game has been opened and its events have been loaded, the
\* score the session holds, and the score the open view shows, are the
\* per-team counts of the loaded log.
C14_OpenedScoreIsDerived ==
  (lastRet.op = "load" /\ lastRet.ok /\ Idle /\ currentGame # NoGame) =>
    /\ HeldScoreMatchesLog
    /\ activeGameView # NoGame =>
         /\ activeGameView.homeScore = CountSeq(events, activeGameView.homeTeamId)
         /\ activeGameView.awayScore = CountSeq(events, activeGameView.awayTeamId)

\* ------------------------------------------- updateGame from the scoring view
\* number of updateGame calls the progress buttons make, at most
MaxUpdates == 3

\* the four optional timeout lists of a Game
TimeoutFields ==
  {"homeTimeouts", "awayTimeouts", "homeSpiritTimeouts", "awaySpiritTimeouts"}

\* `game.homeTimeouts || []`: an absent list reads as the empty list
ListOf(game, field) == IF field \in DOMAIN game THEN game[field] ELSE <<>>

\* `!game.halftimeTime`: an optional field that has been written
IsSet(game, field) == field \in DOMAIN game

\* a progress button of the scoring view -> gameStore.updateGame(
\* activeGameView.id, updateData) up to the first await (updateDoc);
\* Timestamp.now() is the next value of the clock.
updateGameCalled(data) ==
  /\ Tap
  /\ ScoringViewOpen
  /\ activeGameView.id \in DOMAIN games
  /\ nextId <= MaxUpdates
  /\ isLoading' = TRUE
  /\ error' = Null
  /\ tasks' = Started([kind |-> "timeout", pc |-> "updateDoc",
                       id |-> activeGameView.id, data |-> data,
                       game |-> games[activeGameView.id],
                       view |-> activeGameView])
  /\ nextId' = nextId + 1
  /\ overlaps' = Tapped
  /\ lastRet' = NoRet
  /\ roundTrip' = NoRoundTrip
  /\ UNCHANGED <<dbVars, games, currentGame, events, activeGameView,
                 flowVars, failures>>
  /\ UNCHANGED authVars

\* "Timeout (n)" / "Spirit (n)" buttons -> handleTimeout(team) /
\* handleSpiritTimeout(team): { <list>: [...currentTimeouts, now] }
handleTimeout(field) ==
  updateGameCalled(field :> Append(ListOf(activeGameView, field), nextId))

\* "Call Half-time", rendered while the view has no halftimeTime
handleHalftime ==
  /\ ~IsSet(activeGameView, "halftimeTime")
  /\ updateGameCalled([halftimeTime |-> nextId,
                       halftimeHomeScore |-> activeGameView.homeScore,
                       halftimeAwayScore |-> activeGameView.awayScore])

\* "Start 2nd Half", rendered while the view has a halftimeTime and no
\* secondHalfStartTime
handleStartSecondHalf ==
  /\ IsSet(activeGameView, "halftimeTime")
  /\ ~IsSet(activeGameView, "secondHalfStartTime")
  /\ updateGameCalled([secondHalfStartTime |-> nextId])

\* firestoreService.updateGame: updateDoc(docRef, withUpdatedAt(data)) resolved
timeoutUpdateDocResolve(i) ==
  /\ tasks[i].kind = "timeout" /\ tasks[i].pc = "updateDoc"
  /\ dbGames' = [dbGames EXCEPT ![tasks[i].id] = Merge(@, tasks[i].data)]
  /\ tasks' = [tasks EXCEPT ![i].pc = "history"]
  /\ lastRet' = NoRet
  /\ UNCHANGED <<dbEvents, dbHistory, storeVars, activeGameView, flowVars,
                 nextId, failures, overlaps, roundTrip>>
  /\ UNCHANGED authVars

\* firestoreService.updateGame: createHistoryEntry resolved; updateGame's
\* runInAction and finally run with the game captured at the call;
\* handleTimeout calls setActiveGameView({...activeGameView, ...updateData})
\* with the view captured at the tap.
timeoutResolve(i) ==
  /\ tasks[i].kind = "timeout" /\ tasks[i].pc = "history"
  /\ dbHistory' = dbHistory \cup
                    {GameHistoryEntry("update", tasks[i].id, tasks[i].data)}
  /\ games' = IF tasks[i].id \in DOMAIN games
              THEN [games EXCEPT ![tasks[i].id] =
                      Merge(tasks[i].game, tasks[i].data)]
              ELSE games
  /\ currentGame' = IF currentGame # NoGame /\ currentGame.id = tasks[i].id
                    THEN Merge(currentGame, tasks[i].data)
                    ELSE currentGame
  /\ isLoading' = FALSE
  /\ activeGameView' = Merge(tasks[i].view, tasks[i].data)
  /\ tasks' = Finished(i)
  /\ lastRet' = [op |-> "timeout", ok |-> TRUE]
  /\ UNCHANGED <<dbGames, dbEvents, events, error, flowVars, nextId,
                 failures, overlaps, roundTrip>>
  /\ UNCHANGED authVars

\* The scoring view with its timeout buttons: as ScoringViewNext, and a
\* timeout button can be tapped while one other operation is in flight.
GameUpdatesNext ==
  \/ Idle /\ \E team \in Teams : selectTeam(team)
  \/ Idle /\ changeTeam
  \/ Idle /\ \E p \in Players \cup {Skip} : selectAssister(p)
  \/ Idle /\ changeAssister
  \/ Idle /\ \E g \in DOMAIN games : handleViewGame(g)
  \/ Idle /\ backToGames
  \/ Idle /\ \E p \in Players \cup {Skip} : handleScorePoint(p)
  \/ Idle /\ handleUndo
  \/ Idle /\ handleEndGame
  \/ \E field \in TimeoutFields : handleTimeout(field)
  \/ \E i \in Slots : timeoutUpdateDocResolve(i)
  \/ \E i \in Slots : timeoutResolve(i)
  \/ Resolves

SpecGameUpdates == Init /\ [][GameUpdatesNext]_vars

\* position of a status in scheduled -> in_progress -> completed
StatusRank(st) ==
  CASE st = "scheduled" -> 0
    [] st = "in_progress" -> 1
    [] st = "completed" -> 2

\* C15: no step moves the status of a game backward along scheduled,
\* in_progress, completed, neither in the stored document nor in the store's
\* list of games.
C15_StatusMovesForward ==
  [][\A g \in DOMAIN dbGames \cap DOMAIN games :
       /\ StatusRank(dbGames'[g].status) >= StatusRank(dbGames[g].status)
       /\ StatusRank(games'[g].status) >= StatusRank(games[g].status)]_vars

\* ------------------------------------------- history page: undo of an entry
\* entries of the history list that confirmUndo reverts by deleting an event
CreatedEventEntries ==
  {h \in dbHistory : h.action = "create" /\ h.entityType = "event"}

\* Undo dialog confirmed for a 'create' / 'event' entry, up to the first
\* await (getGame).  The history page is shown, not a game.
confirmUndo(h) ==
  /\ Tap
  /\ activeGameView = NoGame
  /\ h \in CreatedEventEntries
  /\ tasks' = Started([kind |-> "confirmUndo", pc |-> "getGame",
                       entry |-> h, game |-> NoGame, event |-> NoEvent,
                       homeScore |-> 0, awayScore |-> 0])
  /\ overlaps' = Tapped
  /\ lastRet' = NoRet
  /\ roundTrip' = NoRoundTrip
  /\ UNCHANGED <<dbVars, storeVars, activeGameView, flowVars, nextId,
                 failures>>
  /\ UNCHANGED authVars

\* confirmUndo: getGame(eventSnapshot.gameId) resolved; `if (game)`
confirmUndoGetGame(i) ==
  /\ tasks[i].kind = "confirmUndo" /\ tasks[i].pc = "getGame"
  /\ tasks' = IF tasks[i].entry.gameId \in DOMAIN dbGames
              THEN [tasks EXCEPT ![i].pc = "getEvents",
                                 ![i].game = dbGames[tasks[i].entry.gameId]]
              ELSE Finished(i)
  /\ lastRet' = NoRet
  /\ UNCHANGED <<dbVars, storeVars, activeGameView, flowVars, nextId,
                 failures, overlaps, roundTrip>>
  /\ UNCHANGED authVars

\* confirmUndo: getEventsByGame(game.id) resolved;
\* events.find(e => e.id === selectedEntry.entityId), `if (eventToDelete)`
confirmUndoGetEvents(i) ==
  /\ tasks[i].kind = "confirmUndo" /\ tasks[i].pc = "getEvents"
  /\ LET found == {e \in EventsOfGame(tasks[i].game.id) :
                     e.id = tasks[i].entry.entityId}
     IN  tasks' = IF found = {}
                  THEN Finished(i)
                  ELSE [tasks EXCEPT ![i].pc = "deleteDoc",
                                     ![i].event = CHOOSE e \in found : TRUE]
  /\ lastRet' = NoRet
  /\ UNCHANGED <<dbVars, storeVars, activeGameView, flowVars, nextId,
                 failures, overlaps, roundTrip>>
  /\ UNCHANGED authVars

\* deleteScoringEvent(eventToDelete, game): deleteDoc resolved
confirmUndoDeleteDoc(i) ==
  /\ tasks[i].kind = "confirmUndo" /\ tasks[i].pc = "deleteDoc"
  /\ dbEvents' = {e \in dbEvents : e.id # tasks[i].event.id}
  /\ tasks' = [tasks EXCEPT ![i].pc = "getDocs"]
  /\ lastRet' = NoRet
  /\ UNCHANGED <<dbGames, dbHistory, storeVars, activeGameView, flowVars,
                 nextId, failures, overlaps, roundTrip>>
  /\ UNCHANGED authVars

\* deleteScoringEvent: getEventsByGame(game.id) resolved, scores recounted
confirmUndoGetDocs(i) ==
  /\ tasks[i].kind = "confirmUndo" /\ tasks[i].pc = "getDocs"
  /\ LET remainingEvents == getEventsByGame(tasks[i].game.id)
     IN  tasks' = [tasks EXCEPT
           ![i].pc = "updateDoc",
           ![i].homeScore = CountSeq(remainingEvents, tasks[i].game.homeTeamId),
           ![i].awayScore = CountSeq(remainingEvents, tasks[i].game.awayTeamId)]
  /\ lastRet' = NoRet
  /\ UNCHANGED <<dbVars, storeVars, activeGameView, flowVars, nextId,
                 failures, overlaps, roundTrip>>
  /\ UNCHANGED authVars

\* deleteScoringEvent: updateDoc(doc(gamesRef, game.id), {...}) resolved
confirmUndoUpdateDoc(i) ==
  /\ tasks[i].kind = "confirmUndo" /\ tasks[i].pc = "updateDoc"
  /\ dbGames' = [dbGames EXCEPT ![tasks[i].game.id] =
                   Merge(@, [homeScore |-> tasks[i].homeScore,
                             awayScore |-> tasks[i].awayScore])]
  /\ tasks' = [tasks EXCEPT ![i].pc = "history"]
  /\ lastRet' = NoRet
  /\ UNCHANGED <<dbEvents, dbHistory, storeVars, activeGameView, flowVars,
                 nextId, failures, overlaps, roundTrip>>
  /\ UNCHANGED authVars

\* createHistoryEntry('delete', 'event', event.id, eventName,
\* { previousSnapshot: event }) as written from the history page: the entry
\* with the snapshot that a later restore reads
DeletedEventEntry(event) ==
  [action |-> "delete", entityType |-> "event", entityId |-> event.id,
   snapshot |-> event.id, gameId |-> event.gameId,
   previousSnapshot |-> event]

\* deleteScoringEvent: createHistoryEntry resolved; confirmUndo returns (the
\* history list it reloads is not held by the GameStore)
confirmUndoResolve(i) ==
  /\ tasks[i].kind = "confirmUndo" /\ tasks[i].pc = "history"
  /\ dbHistory' = dbHistory \cup {DeletedEventEntry(tasks[i].event)}
  /\ tasks' = Finished(i)
  /\ lastRet' = [op |-> "confirmUndo", ok |-> TRUE]
  /\ UNCHANGED <<dbGames, dbEvents, storeVars, activeGameView, flowVars,
                 nextId, failures, overlaps, roundTrip>>
  /\ UNCHANGED authVars

\* The games page and the history page used in turn, the operator waiting
\* for every operation to return; every awaited call resolves.
HistoryPageNext ==
  \/ Idle /\ \E team \in Teams : selectTeam(team)
  \/ Idle /\ changeTeam
  \/ Idle /\ \E p \in Players \cup {Skip} : selectAssister(p)
  \/ Idle /\ changeAssister
  \/ Idle /\ \E g \in DOMAIN games : handleViewGame(g)
  \/ Idle /\ backToGames
  \/ Idle /\ \E p \in Players \cup {Skip} : handleScorePoint(p)
  \/ Idle /\ handleUndo
  \/ Idle /\ handleEndGame
  \/ Idle /\ \E h \in dbHistory : confirmUndo(h)
  \/ \E i \in Slots : confirmUndoGetGame(i)
  \/ \E i \in Slots : confirmUndoGetEvents(i)
  \/ \E i \in Slots : confirmUndoDeleteDoc(i)
  \/ \E i \in Slots : confirmUndoGetDocs(i)
  \/ \E i \in Slots : confirmUndoUpdateDoc(i)
  \/ \E i \in Slots : confirmUndoResolve(i)
  \/ Resolves

SpecHistoryPage == Init /\ [][HistoryPageNext]_vars

\* C16: once the stored status of a game is completed, no step appends a
\* scoring event to that game's stored log or removes one from it.
C16_CompletedLogFrozen ==
  [][\A g \in DOMAIN dbGames :
       dbGames[g].status = "completed" =>
         {e \in dbEvents' : e.gameId = g} = EventsOfGame(g)]_vars

\* ---------------------------------------------------------------- deleteGame
\* f without the key k
Without(f, k) == [x \in DOMAIN f \ {k} |-> f[x]]

\* "Delete game" in the games list, confirmed -> handleDeleteGame ->
\* GameStore.deleteGame -> firestoreService.deleteGame up to its first await
\* (getDocs of the game's events).  The list is reached from the scoring
\* view by "Back to Games": the delete tap may follow such a tap made while
\* an operation was in flight.
handleDeleteGame(g) ==
  /\ Idle \/ overlaps <= MaxOverlaps
  /\ activeGameView = NoGame
  /\ g \in DOMAIN games
  /\ isLoading' = TRUE
  /\ error' = Null
  /\ tasks' = Started([kind |-> "delete", pc |-> "getDocs",
                       game |-> games[g], docs |-> {}])
  /\ overlaps' = Tapped
  /\ lastRet' = NoRet
  /\ roundTrip' = NoRoundTrip
  /\ UNCHANGED <<dbVars, games, currentGame, events, activeGameView,
                 flowVars, nextId, failures>>
  /\ UNCHANGED authVars

\* firestoreService.deleteGame: getDocs(eventsQuery) resolved
deleteGetDocsResolve(i) ==
  /\ tasks[i].kind = "delete" /\ tasks[i].pc = "getDocs"
  /\ tasks' = [tasks EXCEPT ![i].pc = "commit",
                            ![i].docs = EventsOfGame(tasks[i].game.id)]
  /\ lastRet' = NoRet
  /\ UNCHANGED <<dbVars, storeVars, activeGameView, flowVars, nextId,
                 failures, overlaps, roundTrip>>
  /\ UNCHANGED authVars

\* firestoreService.deleteGame: batch.commit() resolved: the events of the
\* snapshot and the game document are deleted together
deleteCommitResolve(i) ==
  /\ tasks[i].kind = "delete" /\ tasks[i].pc = "commit"
  /\ dbEvents' = {e \in dbEvents : \A d \in tasks[i].docs : e.id # d.id}
  /\ dbGames' = Without(dbGames, tasks[i].game.id)
  /\ tasks' = [tasks EXCEPT ![i].pc = "history"]
  /\ lastRet' = NoRet
  /\ UNCHANGED <<dbHistory, storeVars, activeGameView, flowVars, nextId,
                 failures, overlaps, roundTrip>>
  /\ UNCHANGED authVars

\* firestoreService.deleteGame: createHistoryEntry resolved; the runInAction
\* and finally of GameStore.deleteGame run
deleteResolve(i) ==
  /\ tasks[i].kind = "delete" /\ tasks[i].pc = "history"
  /\ dbHistory' = dbHistory \cup
                    {GameHistoryEntry("delete", tasks[i].game.id, <<>>)}
  /\ games' = Without(games, tasks[i].game.id)
  /\ IF currentGame # NoGame /\ currentGame.id = tasks[i].game.id
     THEN currentGame' = NoGame /\ events' = <<>>
     ELSE UNCHANGED <<currentGame, events>>
  /\ isLoading' = FALSE
  /\ tasks' = Finished(i)
  /\ lastRet' = [op |-> "delete", ok |-> TRUE]
  /\ UNCHANGED <<dbGames, dbEvents, error, activeGameView, flowVars, nextId,
                 failures, overlaps, roundTrip>>
  /\ UNCHANGED authVars

\* createScoringEvent: updateDoc of a game document that no longer exists
\* rejects; the catch block of addScoringEvent runs
addUpdateDocMissing(i) ==
  /\ tasks[i].kind = "add" /\ tasks[i].pc = "updateDoc"
  /\ tasks[i].game.id \notin DOMAIN dbGames
  /\ error' = ErrorMessage
  /\ scoringTeamId' = Null
  /\ assisterPlayerId' = Null
  /\ tasks' = Finished(i)
  /\ lastRet' = [op |-> "add", ok |-> FALSE, guarded |-> FALSE,
                 at |-> tasks[i].pc,
                 event |-> NoEvent, pre |-> tasks[i].pre]
  /\ UNCHANGED <<dbVars, games, currentGame, events, isLoading,
                 activeGameView, nextId, failures, overlaps, roundTrip>>
  /\ UNCHANGED authVars

\* Scoring and deleting a game: a game can be deleted from the list while
\* one other operation is still in flight; every awaited call resolves
\* unless its document is gone.
DeleteGameNext ==
  \/ Idle /\ \E team \in Teams : selectTeam(team)
  \/ Idle /\ changeTeam
  \/ Idle /\ \E p \in Players \cup {Skip} : selectAssister(p)
  \/ Idle /\ changeAssister
  \/ Idle /\ \E g \in DOMAIN games : handleViewGame(g)
  \/ backToGames
  \/ Idle /\ \E p \in Players \cup {Skip} : handleScorePoint(p)
  \/ \E g \in DOMAIN games : handleDeleteGame(g)
  \/ \E i \in Slots : loadEventsResolve(i)
  \/ \E i \in Slots : addDocResolve(i)
  \/ \E i \in Slots :
       /\ tasks[i].kind = "add"
       /\ tasks[i].game.id \in DOMAIN dbGames
       /\ addUpdateDocResolve(i)
  \/ \E i \in Slots : addUpdateDocMissing(i)
  \/ \E i \in Slots : addResolve(i)
  \/ \E i \in Slots : deleteGetDocsResolve(i)
  \/ \E i \in Slots : deleteCommitResolve(i)
  \/ \E i \in Slots : deleteResolve(i)

SpecDeleteGame == Init /\ [][DeleteGameNext]_vars

\* C17: storage holds no scoring event of a game whose document has been
\* deleted.
C17_NoOrphanedEvents ==
  \A e \in dbEvents : e.gameId \in DOMAIN dbGames

\* ------------------------------------------------- a game with a full roster
\* a started game whose home team has two rostered players
RosterGameIds == {"g3"}

InitRosterGame ==
  /\ dbGames = [g \in RosterGameIds |-> Game(g, 0, 0, "in_progress")]
  /\ dbEvents = {}
  /\ dbHistory = {}
  /\ games = [g \in RosterGameIds |-> Game(g, 0, 0, "in_progress")]
  /\ currentGame = NoGame
  /\ events = <<>>
  /\ isLoading = FALSE
  /\ error = Null
  /\ activeGameView = NoGame
  /\ scoringTeamId = Null
  /\ assisterPlayerId = Null
  /\ tasks = <<>>
  /\ nextId = 1
  /\ failures = 0
  /\ overlaps = 0
  /\ lastRet = NoRet
  /\ roundTrip = NoRoundTrip
  /\ SignedIn

\* faulty variant of ScorePointGuard: the scoring team is not looked at
ScorePointGuardViewOnly == activeGameView = NoGame

\* `if (!activeGameView || !scoringTeamId) return` of handleScorePoint
ScorePointGuard == activeGameView = NoGame \/ scoringTeamId = Null

\* handleScorePoint(goalScorerPlayerId) called while step 1 is shown (no
\* scoring team chosen): it returns at its guard; past the guard it would
\* build the event data and call addScoringEvent.
handleScorePointAwaitingTeam(p) ==
  /\ Tap
  /\ ScoringViewOpen
  /\ scoringTeamId = Null
  /\ overlaps' = Tapped
  /\ roundTrip' = NoRoundTrip
  /\ IF ScorePointGuard
     THEN /\ lastRet' = [op |-> "add", ok |-> FALSE, guarded |-> TRUE,
                         at |-> "page", event |-> NoEvent, pre |-> Held]
          /\ UNCHANGED <<tasks, nextId>>
     ELSE /\ currentGame # NoGame
          /\ nextId <= MaxEvents
          /\ tasks' = Started([kind |-> "add", pc |-> "addDoc",
                               data |-> ScoreData(p), game |-> currentGame,
                               view |-> activeGameView, pre |-> Held])
          /\ nextId' = nextId + 1
          /\ lastRet' = NoRet
  /\ UNCHANGED <<dbVars, storeVars, activeGameView, flowVars, failures>>
  /\ UNCHANGED authVars

\* The three-step scoring flow: flow buttons and scorer buttons are tapped
\* at any time, also while an addScoringEvent is in flight; every awaited
\* call resolves.
ScorerStepNext ==
  \/ \E team \in Teams : selectTeam(team)
  \/ changeTeam
  \/ \E p \in Players \cup {Skip} : selectAssister(p)
  \/ changeAssister
  \/ Idle /\ \E g \in DOMAIN games : handleViewGame(g)
  \/ \E p \in Players \cup {Skip} : handleScorePoint(p)
  \/ \E p \in Players \cup {Skip} : handleScorePointAwaitingTeam(p)
  \/ \E i \in Slots : loadEventsResolve(i)
  \/ \E i \in Slots : addDocResolve(i)
  \/ \E i \in Slots : addUpdateDocResolve(i)
  \/ \E i \in Slots : addResolve(i)

SpecScorerStep == InitRosterGame /\ [][ScorerStepNext]_vars

\* the events emitted so far: in flight, stored, or held by the store
EmittedEvents ==
  {tasks[i].data : i \in AddsInFlight} \cup dbEvents
    \cup {events[k] : k \in DOMAIN events}

\* C18: in every event that is emitted (in flight), persisted or held, a
\* scorer and an assister that are both present are different players.
C18_AssisterIsNotScorer ==
  \A e \in EmittedEvents :
    (e.scorerPlayerId # Skip /\ e.assisterPlayerId # Skip)
      => e.scorerPlayerId # e.assisterPlayerId

\* C18 witness: a stored event carries both a scorer and an assister, and the
\* scorer step is shown again with an assister chosen from a roster of two.
C18_Witness ==
  /\ \E e \in dbEvents :
       e.scorerPlayerId # Skip /\ e.assisterPlayerId # Skip
  /\ StepThreeShown
  /\ assisterPlayerId \in RosterOfTeam(scoringTeamId)
  /\ Cardinality(RosterOfTeam(scoringTeamId)) > 1

\* handleScorePoint is called in this step
SelectScorerCalled ==
  \E p \in Players \cup {Skip} :
    \/ handleScorePoint(p)
    \/ handleScorePointNoGame(p)
    \/ handleScorePointAwaitingTeam(p)

\* C19: a selectScorer call made while no scoring team is chosen changes
\* neither the flow state nor the view, starts no operation and emits or
\* stores no event.
C19_ScorerRejectedAwaitingTeam ==
  [][(SelectScorerCalled /\ scoringTeamId = Null) =>
       /\ UNCHANGED <<flowVars, activeGameView, storeVars, dbVars>>
       /\ UNCHANGED <<tasks, nextId>>]_vars

\* C19 witness: with a point already stored, handleScorePoint has just
\* returned at the page guard while step 1 is shown.
C19_Witness ==
  /\ lastRet.op = "add" /\ lastRet.at = "page"
  /\ ScoringViewOpen /\ scoringTeamId = Null
  /\ dbEvents # {}

\* ------------------------------------------------- statistics from events
\* statsMap, a Map in insertion order, as a sequence of PlayerStats
\* position of the record with key id, 0 when statsMap.has(id) is false
RECURSIVE StatsIndex(_, _)
StatsIndex(statsMap, id) ==
  IF statsMap = <<>> THEN 0
  ELSE IF statsMap[Len(statsMap)].playerId = id THEN Len(statsMap)
  ELSE StatsIndex(SubSeq(statsMap, 1, Len(statsMap) - 1), id)

\* if (!statsMap.has(id)) statsMap.set(id, {playerId: id, ..., goals: 0,
\* assists: 0})
StatsEnsure(statsMap, id, team) ==
  IF StatsIndex(statsMap, id) = 0
  THEN Append(statsMap, [playerId |-> id, teamId |-> team,
                         goals |-> 0, assists |-> 0])
  ELSE statsMap

\* faulty variant of StatsOfEvent: an assist is counted only for a player
\* who already has a record
StatsOfEventAssistIfKnown(statsMap, event) ==
  LET withScorer == StatsEnsure(statsMap, event.scorerPlayerId, event.teamId)
      scored == [withScorer EXCEPT
                   ![StatsIndex(withScorer, event.scorerPlayerId)].goals = @ + 1]
  IN  IF event.assisterPlayerId # Skip
      THEN IF StatsIndex(scored, event.assisterPlayerId) = 0
           THEN StatsEnsure(scored, event.assisterPlayerId, event.teamId)
           ELSE [scored EXCEPT
                   ![StatsIndex(scored, event.assisterPlayerId)].assists =
                      @ + 1]
      ELSE scored

\* the body of events.forEach: the scorer's record is created and its goals
\* incremented; the assister's only `if (event.assisterPlayerId)`
StatsOfEvent(statsMap, event) ==
  LET withScorer == StatsEnsure(statsMap, event.scorerPlayerId, event.teamId)
      scored == [withScorer EXCEPT
                   ![StatsIndex(withScorer, event.scorerPlayerId)].goals = @ + 1]
      withAssister ==
        StatsEnsure(scored, event.assisterPlayerId, event.teamId)
  IN  IF event.assisterPlayerId # Skip
      THEN [withAssister EXCEPT
              ![StatsIndex(withAssister, event.assisterPlayerId)].assists =
                 @ + 1]
      ELSE scored

RECURSIVE StatsFold(_, _)
StatsFold(statsMap, evs) ==
  IF evs = <<>> THEN statsMap
  ELSE StatsFold(StatsOfEvent(statsMap, Head(evs)), Tail(evs))

\* faulty variant of StatsInsert: the record goes before the records with
\* the same total
RECURSIVE StatsInsertBeforeEqual(_, _)
StatsInsertBeforeEqual(sorted, r) ==
  IF sorted = <<>> THEN <<r>>
  ELSE IF Head(sorted).goals + Head(sorted).assists > r.goals + r.assists
       THEN <<Head(sorted)>> \o StatsInsertBeforeEqual(Tail(sorted), r)
       ELSE <<r>> \o sorted

\* insertion of a record into a list sorted by (goals + assists) descending,
\* after the records with the same total (Array.prototype.sort is stable)
RECURSIVE StatsInsert(_, _)
StatsInsert(sorted, r) ==
  IF sorted = <<>> THEN <<r>>
  ELSE IF Head(sorted).goals + Head(sorted).assists >= r.goals + r.assists
       THEN <<Head(sorted)>> \o StatsInsert(Tail(sorted), r)
       ELSE <<r>> \o sorted

RECURSIVE StatsSort(_)
StatsSort(stats) ==
  IF stats = <<>> THEN <<>>
  ELSE StatsInsert(StatsSort(SubSeq(stats, 1, Len(stats) - 1)),
                   stats[Len(stats)])

\* calculateStatsFromEvents(events)
calculateStatsFromEvents(evs) == StatsSort(StatsFold(<<>>, evs))

\* getGameStats(gameId) up to its await (getEventsByGame)
getGameStats(g) ==
  /\ Tap
  /\ tasks' = Started([kind |-> "stats", pc |-> "getDocs", id |-> g])
  /\ overlaps' = Tapped
  /\ lastRet' = NoRet
  /\ UNCHANGED <<dbVars, storeVars, activeGameView, flowVars, nextId,
                 failures, roundTrip>>
  /\ UNCHANGED authVars

\* getGameStats: getEventsByGame resolved, the statistics are returned
getGameStatsResolve(i) ==
  /\ tasks[i].kind = "stats"
  /\ tasks' = Finished(i)
  /\ lastRet' = [op |-> "stats", ok |-> TRUE,
                 events |-> getEventsByGame(tasks[i].id),
                 stats |-> calculateStatsFromEvents(
                             getEventsByGame(tasks[i].id))]
  /\ UNCHANGED <<dbVars, storeVars, activeGameView, flowVars, nextId,
                 failures, overlaps, roundTrip>>
  /\ UNCHANGED authVars

\* what the scoring flow can record for one point of game g: the team, and
\* scorer and assister from its roster or skipped, never the same player
PointsOf(g) ==
  {pt \in [team : {HomeTeamOf(g), AwayTeamOf(g)},
           scorer : Players \cup {Skip}, assister : Players \cup {Skip}] :
     /\ pt.scorer \in RosterOfTeam(pt.team) \cup {Skip}
     /\ pt.assister \in RosterOfTeam(pt.team) \cup {Skip}
     /\ pt.scorer = Skip \/ pt.scorer # pt.assister}

\* the stored log of game g after the points pts were scored in sequence
LogOf(g, pts) ==
  {ScoringEvent(i, g, pts[i].team, pts[i].scorer, pts[i].assister,
       Cardinality({j \in 1..i : pts[j].team = HomeTeamOf(g)}),
       Cardinality({j \in 1..i : pts[j].team = AwayTeamOf(g)}), i) :
     i \in DOMAIN pts}

\* a game of the roster game ids with up to MaxEvents points already scored
InitScoredGame ==
  /\ \E g \in RosterGameIds, n \in 0..MaxEvents :
       \E pts \in [1..n -> PointsOf(g)] :
         /\ dbEvents = LogOf(g, pts)
         /\ dbGames = [x \in {g} |->
              Game(x, CountSet(LogOf(g, pts), HomeTeamOf(g)),
                      CountSet(LogOf(g, pts), AwayTeamOf(g)), "in_progress")]
         /\ games = dbGames
         /\ nextId = n + 1
  /\ dbHistory = {}
  /\ currentGame = NoGame
  /\ events = <<>>
  /\ isLoading = FALSE
  /\ error = Null
  /\ activeGameView = NoGame
  /\ scoringTeamId = Null
  /\ assisterPlayerId = Null
  /\ tasks = <<>>
  /\ failures = 0
  /\ overlaps = 0
  /\ lastRet = NoRet
  /\ roundTrip = NoRoundTrip
  /\ SignedIn

\* the statistics of a stored game are requested, at most one request
\* overlapping another
StatsNext ==
  \/ \E g \in DOMAIN dbGames : getGameStats(g)
  \/ \E i \in Slots : getGameStatsResolve(i)

SpecStats == InitScoredGame /\ [][StatsNext]_vars

\* number of events of evs whose field f is id
RECURSIVE CountField(_, _, _)
CountField(evs, f, id) ==
  IF evs = <<>> THEN 0
  ELSE (IF Head(evs)[f] = id THEN 1 ELSE 0) + CountField(Tail(evs), f, id)

\* C20: the statistics returned for an event list hold, for each player id,
\* goals equal to the number of events it scored and assists equal to the
\* number of events it assisted; an event whose scorer was skipped creates
\* no record and counts no goal.
C20_StatsCountGoalsAndAssists ==
  lastRet.op = "stats" =>
    /\ \A k \in DOMAIN lastRet.stats :
         /\ lastRet.stats[k].playerId # Skip
         /\ lastRet.stats[k].goals =
              CountField(lastRet.events, "scorerPlayerId",
                         lastRet.stats[k].playerId)
         /\ lastRet.stats[k].assists =
              CountField(lastRet.events, "assisterPlayerId",
                         lastRet.stats[k].playerId)
    /\ \A p \in Players :
         (\A k \in DOMAIN lastRet.stats : lastRet.stats[k].playerId # p) =>
           /\ CountField(lastRet.events, "scorerPlayerId", p) = 0
           /\ CountField(lastRet.events, "assisterPlayerId", p) = 0

\* the orderings of the list evs
Reorderings(evs) ==
  {[i \in DOMAIN evs |-> evs[f[i]]] :
     f \in {g \in [DOMAIN evs -> DOMAIN evs] :
              \A i, j \in DOMAIN evs : g[i] = g[j] => i = j}}

\* the goals and assists a statistics list gives to each player id
PerPlayer(stats) ==
  {[playerId |-> stats[k].playerId, goals |-> stats[k].goals,
    assists |-> stats[k].assists] : k \in DOMAIN stats}

\* C21: the per-player goals and assists computed from any reordering of an
\* event list equal those computed from the list itself.
C21_StatsOrderIndependent ==
  lastRet.op = "stats" =>
    \A permuted \in Reorderings(lastRet.events) :
      PerPlayer(calculateStatsFromEvents(permuted)) = PerPlayer(lastRet.stats)

\* C21 witness: statistics were returned for a list of two events in which
\* one player scores in one event and assists in the other.
C21_Witness ==
  /\ lastRet.op = "stats"
  /\ Len(lastRet.events) >= 2
  /\ \E i, j \in DOMAIN lastRet.events :
       /\ i # j
       /\ lastRet.events[i].scorerPlayerId # Skip
       /\ lastRet.events[i].scorerPlayerId = lastRet.events[j].assisterPlayerId

\* ------------------------------------------------ players page: MVP by gender
\* playerStore.players: the registered players with gender and name order
GenderOf(p) == IF p \in {"p5", "p6"} THEN "male" ELSE "female"

Genders == {"male", "female"}

\* position of the player's name in localeCompare order
NameRank(p) ==
  CASE p = "p1" -> 1 [] p = "p4" -> 2 [] p = "p5" -> 3 [] p = "p6" -> 4

\* `undefined`
Undefined == "undefined"

\* tournamentStats.find((s) => s.playerId === player.id)?.[field] || 0
StatOf(stats, p, field) ==
  IF StatsIndex(stats, p) = 0 THEN 0 ELSE stats[StatsIndex(stats, p)][field]

TotalOf(stats, p) == StatOf(stats, p, "goals") + StatOf(stats, p, "assists")

\* faulty variant of RankedBefore: goals are not compared
RankedBeforeTotalThenName(stats, p, q) ==
  \/ TotalOf(stats, p) > TotalOf(stats, q)
  \/ /\ TotalOf(stats, p) = TotalOf(stats, q)
     /\ NameRank(p) < NameRank(q)

\* the comparator of playersWithStats.sort: p is placed before q
RankedBefore(stats, p, q) ==
  \/ TotalOf(stats, p) > TotalOf(stats, q)
  \/ /\ TotalOf(stats, p) = TotalOf(stats, q)
     /\ StatOf(stats, p, "goals") > StatOf(stats, q, "goals")
  \/ /\ TotalOf(stats, p) = TotalOf(stats, q)
     /\ StatOf(stats, p, "goals") = StatOf(stats, q, "goals")
     /\ NameRank(p) < NameRank(q)

\* playersWithStats.filter((p) => p.gender === gender)[0]
MVPOf(stats, gender) ==
  LET ofGender == {p \in Players : GenderOf(p) = gender}
  IN  IF ofGender = {} THEN Undefined
      ELSE CHOOSE p \in ofGender :
             \A q \in ofGender \ {p} : RankedBefore(stats, p, q)

\* PlayersPage loadStats up to its await (getTournamentStats)
loadStats ==
  /\ Tap
  /\ tasks' = Started([kind |-> "loadStats", pc |-> "getDocs"])
  /\ overlaps' = Tapped
  /\ lastRet' = NoRet
  /\ UNCHANGED <<dbVars, storeVars, activeGameView, flowVars, nextId,
                 failures, roundTrip>>
  /\ UNCHANGED authVars

\* getTournamentStats resolved: setTournamentStats(stats), the page renders
\* maleMVP and femaleMVP
loadStatsResolve(i) ==
  /\ tasks[i].kind = "loadStats"
  /\ tasks' = Finished(i)
  /\ LET stats == calculateStatsFromEvents(SortByCreatedAt(dbEvents))
     IN  lastRet' = [op |-> "loadStats", ok |-> TRUE, stats |-> stats,
                     mvp |-> [gender \in Genders |-> MVPOf(stats, gender)]]
  /\ UNCHANGED <<dbVars, storeVars, activeGameView, flowVars, nextId,
                 failures, overlaps, roundTrip>>
  /\ UNCHANGED authVars

\* the statistics of a stored game and the players page are requested
PlayersPageNext ==
  \/ \E g \in DOMAIN dbGames : getGameStats(g)
  \/ \E i \in Slots : getGameStatsResolve(i)
  \/ loadStats
  \/ \E i \in Slots : loadStatsResolve(i)

SpecPlayersPage == InitScoredGame /\ [][PlayersPageNext]_vars

\* the players of a gender that have a record in the statistics
RankedOfGender(stats, gender) ==
  {p \in Players : GenderOf(p) = gender /\ StatsIndex(stats, p) # 0}

\* C22: for each gender the MVP shown is a player of that gender whose
\* goals + assists is maximal among the players of that gender in the
\* statistics, and it is undefined when the statistics hold no player of
\* that gender.
C22_MVPByGender ==
  lastRet.op = "loadStats" =>
    \A gender \in Genders :
      LET ranked == RankedOfGender(lastRet.stats, gender)
          mvp == lastRet.mvp[gender]
      IN  IF ranked = {} THEN mvp = Undefined
          ELSE /\ mvp \in ranked
               /\ \A q \in ranked :
                    TotalOf(lastRet.stats, mvp) >= TotalOf(lastRet.stats, q)

\* ------------------------------------------------------------------ AuthStore
gameVars ==
  <<dbVars, storeVars, activeGameView, flowVars, nextId, roundTrip>>

\* isEmailAllowed(user.email) when getDoc resolves: emailDoc.exists()
isEmailAllowed(u) == ToLowerCase(EmailOf(u)) \in AllowedEmails

AccessDenied == "access denied"

\* onAuthStateChanged callback invoked with a user: isEmailAllowed(user.email)
\* is awaited
Notified(ts, u) ==
  Append(ts, [kind |-> "listener", pc |-> "getDoc", user |-> u])

\* onAuthStateChanged callback invoked with null, when the auth state
\* changed to signed out: this.user = null, isLoading = false
ListenerSignedOut(store) ==
  IF authUser = NoUser THEN store
  ELSE [store EXCEPT !.user = NoUser, !.isLoading = FALSE]

\* "Sign in with Google" on the login page -> signInWithGoogle up to its
\* first await (signInWithPopup)
signInWithGoogle(u) ==
  /\ Tap
  /\ authStore.user = NoUser
  /\ authStore' = [authStore EXCEPT !.isLoading = TRUE, !.error = Null]
  /\ tasks' = Started([kind |-> "signIn", pc |-> "popup", user |-> u])
  /\ overlaps' = Tapped
  /\ lastRet' = NoRet
  /\ UNCHANGED <<gameVars, failures, authUser>>

\* signInWithPopup resolved: the account is signed in, the listener is
\* notified, isEmailAllowed(result.user.email) is awaited
signInPopupResolve(i) ==
  /\ tasks[i].kind = "signIn" /\ tasks[i].pc = "popup"
  /\ authUser' = tasks[i].user
  /\ tasks' = IF authUser = tasks[i].user
              THEN [tasks EXCEPT ![i].pc = "getDoc"]
              ELSE Notified([tasks EXCEPT ![i].pc = "getDoc"], tasks[i].user)
  /\ lastRet' = NoRet
  /\ UNCHANGED <<gameVars, failures, overlaps, authStore>>

\* signInWithPopup rejected (popup closed): catch and finally run
signInPopupReject(i) ==
  /\ tasks[i].kind = "signIn" /\ tasks[i].pc = "popup"
  /\ CanFail
  /\ failures' = failures + 1
  /\ authStore' = [authStore EXCEPT !.error = ErrorMessage,
                                    !.isLoading = FALSE]
  /\ tasks' = Finished(i)
  /\ lastRet' = [op |-> "signIn", ok |-> FALSE]
  /\ UNCHANGED <<gameVars, overlaps, authUser>>

\* signInWithGoogle: isEmailAllowed resolved with true: this.user =
\* result.user, finally runs
signInAllowed(i) ==
  /\ tasks[i].kind = "signIn" /\ tasks[i].pc = "getDoc"
  /\ isEmailAllowed(tasks[i].user)
  /\ authStore' = [authStore EXCEPT !.user = tasks[i].user,
                                    !.isLoading = FALSE]
  /\ tasks' = Finished(i)
  /\ lastRet' = [op |-> "signIn", ok |-> TRUE]
  /\ UNCHANGED <<gameVars, failures, overlaps, authUser>>

\* signInWithGoogle: isEmailAllowed resolved with false (no such document):
\* signOut(auth) is awaited
signInDenied(i) ==
  /\ tasks[i].kind = "signIn" /\ tasks[i].pc = "getDoc"
  /\ ~isEmailAllowed(tasks[i].user)
  /\ tasks' = [tasks EXCEPT ![i].pc = "signOut"]
  /\ lastRet' = NoRet
  /\ UNCHANGED <<gameVars, failures, overlaps, authVars>>

\* signInWithGoogle: getDoc rejected, isEmailAllowed catches it and returns
\* false: signOut(auth) is awaited
signInCheckFailed(i) ==
  /\ tasks[i].kind = "signIn" /\ tasks[i].pc = "getDoc"
  /\ CanFail
  /\ failures' = failures + 1
  /\ tasks' = [tasks EXCEPT ![i].pc = "signOut"]
  /\ lastRet' = NoRet
  /\ UNCHANGED <<gameVars, overlaps, authVars>>

\* signInWithGoogle: signOut(auth) resolved (the listener is called with
\* null): user = null, access denied, finally runs
signInSignOutResolve(i) ==
  /\ tasks[i].kind = "signIn" /\ tasks[i].pc = "signOut"
  /\ authUser' = NoUser
  /\ authStore' = [ListenerSignedOut(authStore) EXCEPT
                     !.user = NoUser, !.error = AccessDenied,
                     !.isLoading = FALSE]
  /\ tasks' = Finished(i)
  /\ lastRet' = [op |-> "signIn", ok |-> FALSE]
  /\ UNCHANGED <<gameVars, failures, overlaps>>

\* listener: isEmailAllowed resolved with true: this.user = user
listenerAllowed(i) ==
  /\ tasks[i].kind = "listener" /\ tasks[i].pc = "getDoc"
  /\ isEmailAllowed(tasks[i].user)
  /\ authStore' = [authStore EXCEPT !.user = tasks[i].user,
                                    !.isLoading = FALSE]
  /\ tasks' = Finished(i)
  /\ lastRet' = [op |-> "listener", ok |-> TRUE]
  /\ UNCHANGED <<gameVars, failures, overlaps, authUser>>

\* listener: isEmailAllowed resolved with false: signOut(auth) is awaited
listenerDenied(i) ==
  /\ tasks[i].kind = "listener" /\ tasks[i].pc = "getDoc"
  /\ ~isEmailAllowed(tasks[i].user)
  /\ tasks' = [tasks EXCEPT ![i].pc = "signOut"]
  /\ lastRet' = NoRet
  /\ UNCHANGED <<gameVars, failures, overlaps, authVars>>

\* listener: getDoc rejected, isEmailAllowed returns false
listenerCheckFailed(i) ==
  /\ tasks[i].kind = "listener" /\ tasks[i].pc = "getDoc"
  /\ CanFail
  /\ failures' = failures + 1
  /\ tasks' = [tasks EXCEPT ![i].pc = "signOut"]
  /\ lastRet' = NoRet
  /\ UNCHANGED <<gameVars, overlaps, authVars>>

\* listener: signOut(auth) resolved (the listener is called again, with
\* null): user = null, access denied
listenerSignOutResolve(i) ==
  /\ tasks[i].kind = "listener" /\ tasks[i].pc = "signOut"
  /\ authUser' = NoUser
  /\ authStore' = [ListenerSignedOut(authStore) EXCEPT
                     !.user = NoUser, !.error = AccessDenied,
                     !.isLoading = FALSE]
  /\ tasks' = Finished(i)
  /\ lastRet' = [op |-> "listener", ok |-> FALSE]
  /\ UNCHANGED <<gameVars, failures, overlaps>>

\* "Sign out" in the app -> logout up to its await (signOut)
logout ==
  /\ Tap
  /\ authStore.user # NoUser
  /\ tasks' = Started([kind |-> "logout", pc |-> "signOut"])
  /\ overlaps' = Tapped
  /\ lastRet' = NoRet
  /\ UNCHANGED <<gameVars, failures, authVars>>

\* logout: signOut(auth) resolved: error = null, the listener is notified
logoutResolve(i) ==
  /\ tasks[i].kind = "logout"
  /\ authUser' = NoUser
  /\ authStore' = [ListenerSignedOut(authStore) EXCEPT !.error = Null]
  /\ tasks' = Finished(i)
  /\ lastRet' = [op |-> "logout", ok |-> TRUE]
  /\ UNCHANGED <<gameVars, failures, overlaps>>

\* the app starts: nobody or a persisted session is signed in, the store is
\* constructed and its listener is called with the current user
InitAuth ==
  /\ authUser \in Users \cup {NoUser}
  /\ authStore = [user |-> NoUser, isLoading |-> authUser # NoUser,
                  error |-> Null]
  /\ tasks = IF authUser = NoUser THEN <<>> ELSE Notified(<<>>, authUser)
  /\ dbGames = [g \in GameIds |-> Game(g, 0, 0, "in_progress")]
  /\ dbEvents = {}
  /\ dbHistory = {}
  /\ games = [g \in GameIds |-> Game(g, 0, 0, "in_progress")]
  /\ currentGame = NoGame
  /\ events = <<>>
  /\ isLoading = FALSE
  /\ error = Null
  /\ activeGameView = NoGame
  /\ scoringTeamId = Null
  /\ assisterPlayerId = Null
  /\ nextId = 1
  /\ failures = 0
  /\ overlaps = 0
  /\ lastRet = NoRet
  /\ roundTrip = NoRoundTrip

\* signing in and out; a button is tapped while at most MaxOverlaps earlier
\* taps found something in flight; awaited calls resolve or reject
AuthNext ==
  \/ \E u \in Users : signInWithGoogle(u)
  \/ logout
  \/ \E i \in Slots : signInPopupResolve(i)
  \/ \E i \in Slots : signInPopupReject(i)
  \/ \E i \in Slots : signInAllowed(i)
  \/ \E i \in Slots : signInDenied(i)
  \/ \E i \in Slots : signInCheckFailed(i)
  \/ \E i \in Slots : signInSignOutResolve(i)
  \/ \E i \in Slots : listenerAllowed(i)
  \/ \E i \in Slots : listenerDenied(i)
  \/ \E i \in Slots : listenerCheckFailed(i)
  \/ \E i \in Slots : listenerSignOutResolve(i)
  \/ \E i \in Slots : logoutResolve(i)

SpecAuth == InitAuth /\ [][AuthNext]_vars

\* no call of the auth listener is still running
ListenerQuiet == \A i \in DOMAIN tasks : tasks[i].kind # "listener"

\* C23: the store's user is an account whose lowercase email is a document
\* id of allowedEmails, and, when no call of the listener is still running,
\* it is the account that is signed in.
C23_UserIsAllowedAndSignedIn ==
  authStore.user # NoUser =>
    /\ isEmailAllowed(authStore.user)
    /\ ListenerQuiet => authUser = authStore.user

\* ------------------------------------------------- closing the game view
\* C24: whenever a game view is opened, the scoring flow is at its first
\* step: no team and no assister is remembered from before the view was
\* closed.
C24_OpenedViewAwaitsTeam ==
  [][(activeGameView = NoGame /\ activeGameView' # NoGame)
       => (scoringTeamId' = Null /\ assisterPlayerId' = Null)]_vars

C26_BackRetreatsOneStep ==
  [][/\ changeAssister =>
          /\ scoringTeamId # Null /\ assisterPlayerId # Null
          /\ scoringTeamId' = scoringTeamId /\ assisterPlayerId' = Null
          /\ UNCHANGED <<tasks, nextId, dbVars, storeVars, activeGameView>>
     /\ changeTeam =>
          /\ scoringTeamId # Null /\ assisterPlayerId = Null
          /\ scoringTeamId' = Null /\ assisterPlayerId' = Null
          /\ UNCHANGED <<tasks, nextId, dbVars, storeVars, activeGameView>>
    ]_vars

\* C26 witness: the only scorer tap made so far is still in flight (it was
\* made in step 3 with an assister chosen) and the flow is at step 2 with
\* the team of that tap: "Change assister" has been tapped since.
C26_Witness ==
  /\ nextId = 2 /\ Len(tasks) = 1
  /\ tasks[1].kind = "add" /\ tasks[1].data.assisterPlayerId \in Players
  /\ ScoringViewOpen
  /\ scoringTeamId = tasks[1].data.teamId /\ assisterPlayerId = Null

\* ------------------------------------------------------ the scoring team
\* Two started games that share one team; the operator scores points,
\* closes a view and opens the other game, waiting for every operation to
\* return; every awaited call resolves.
TeamChoiceNext ==
  \/ Idle /\ \E team \in Teams : selectTeam(team)
  \/ Idle /\ changeTeam
  \/ Idle /\ \E p \in Players \cup {Skip} : selectAssister(p)
  \/ Idle /\ changeAssister
  \/ Idle /\ \E g \in DOMAIN games : handleViewGame(g)
  \/ Idle /\ backToGames
  \/ Idle /\ \E p \in Players \cup {Skip} : handleScorePoint(p)
  \/ \E i \in Slots : loadEventsResolve(i)
  \/ \E i \in Slots : addDocResolve(i)
  \/ \E i \in Slots : addUpdateDocResolve(i)
  \/ \E i \in Slots : addResolve(i)

SpecTeamChoice == InitTwoGames /\ [][TeamChoiceNext]_vars

\* the two teams of a game
TeamsOfGame(g) == {HomeTeamOf(g), AwayTeamOf(g)}

\* C27: every stored scoring event names one of the two teams of its game,
\* and a step that sets the scoring team sets it to one of the two teams of
\* the open game.
C27_TeamIsHomeOrAway ==
  [][/\ \A e \in dbEvents' : e.teamId \in TeamsOfGame(e.gameId)
     /\ (scoringTeamId' # scoringTeamId /\ scoringTeamId' # Null)
          => scoringTeamId' \in TeamsOfGame(activeGameView.id)]_vars

\* C27 witness: a game is open while the remembered team, chosen in the
\* other game, is none of its two teams, and a point is stored for each of
\* the two games.
C27_Witness ==
  /\ ScoringViewOpen
  /\ scoringTeamId # Null
  /\ scoringTeamId \notin TeamsOfGame(activeGameView.id)
  /\ \A g \in DOMAIN games : \E e \in dbEvents : e.gameId = g

\* ------------------------------------------------ game progress controls
\* The progress controls of the scoring view: the timeout, spirit timeout,
\* half-time and second-half buttons are tapped without waiting for a
\* pending updateGame; the view is opened and closed with nothing in
\* flight; every awaited call resolves.
GameProgressNext ==
  \/ Idle /\ \E g \in DOMAIN games : handleViewGame(g)
  \/ Idle /\ backToGames
  \/ \E field \in TimeoutFields : handleTimeout(field)
  \/ handleHalftime
  \/ handleStartSecondHalf
  \/ \E i \in Slots : loadEventsResolve(i)
  \/ \E i \in Slots : timeoutUpdateDocResolve(i)
  \/ \E i \in Slots : timeoutResolve(i)

SpecGameProgress == Init /\ [][GameProgressNext]_vars

\* s is an initial part of t
IsPrefix(s, t) == Len(s) <= Len(t) /\ SubSeq(t, 1, Len(s)) = s

\* C28: no step removes or replaces an entry of a stored timeout list, and
\* every timeout update that is written makes its list one entry longer.
C28_TimeoutListsAppendOnly ==
  [][\A g \in DOMAIN dbGames : \A field \in TimeoutFields :
       /\ IsPrefix(ListOf(dbGames[g], field), ListOf(dbGames'[g], field))
       /\ (\E i \in Slots : /\ timeoutUpdateDocResolve(i)
                             /\ tasks[i].id = g
                             /\ field \in DOMAIN tasks[i].data)
            => Len(ListOf(dbGames'[g], field))
                 = Len(ListOf(dbGames[g], field)) + 1]_vars

\* the fields handleHalftime writes
HalftimeFields == {"halftimeTime", "halftimeHomeScore", "halftimeAwayScore"}

\* C29: once halftimeTime, halftimeHomeScore and halftimeAwayScore of a
\* stored game are set, no step changes or removes them.
C29_HalftimeWrittenOnce ==
  [][\A g \in DOMAIN dbGames : \A field \in HalftimeFields :
       IsSet(dbGames[g], field)
         => (IsSet(dbGames'[g], field)
               /\ dbGames'[g][field] = dbGames[g][field])]_vars

\* C30: once secondHalfStartTime of a stored game is set no step changes or
\* removes it, and the step that sets it starts from a state where the
\* game's halftimeTime is set.
C30_SecondHalfOnceAfterHalftime ==
  [][\A g \in DOMAIN dbGames :
       /\ IsSet(dbGames[g], "secondHalfStartTime")
            => (IsSet(dbGames'[g], "secondHalfStartTime")
                  /\ dbGames'[g].secondHalfStartTime
                       = dbGames[g].secondHalfStartTime)
       /\ (~IsSet(dbGames[g], "secondHalfStartTime")
             /\ IsSet(dbGames'[g], "secondHalfStartTime"))
            => IsSet(dbGames[g], "halftimeTime")]_vars

\* ------------------------------------------------ order of a loaded log
\* number of stored events and of distinct creation times drawn
MaxStored == 3
MaxCreatedAt == 2

\* the stored logs of game g: events with distinct ids, any team of the
\* game, and creation times that may coincide (Timestamp.now() of two
\* clients, or of two calls within one millisecond)
StoredLogs(g) ==
  {S \in SUBSET {ScoringEvent(i, g, team, Skip, Skip, 0, 0, at) :
                   i \in 1..MaxStored, team \in {HomeTeamOf(g), AwayTeamOf(g)},
                   at \in 1..MaxCreatedAt} :
     \A e, f \in S : e.id = f.id => e = f}

\* snapshot.docs: the stored documents in any order
SnapshotOrders(S) ==
  {docs \in [1..Cardinality(S) -> S] :
     \A i, j \in 1..Cardinality(S) : docs[i] = docs[j] => i = j}

\* insertion of an event into a list sorted by createdAt, after the events
\* with the same createdAt (Array.prototype.sort is stable)
RECURSIVE CreatedAtInsert(_, _)
CreatedAtInsert(sorted, e) ==
  IF sorted = <<>> THEN <<e>>
  ELSE IF Head(sorted).createdAt - e.createdAt <= 0
       THEN <<Head(sorted)>> \o CreatedAtInsert(Tail(sorted), e)
       ELSE <<e>> \o sorted

\* events.sort((a, b) => a.createdAt.toMillis() - b.createdAt.toMillis())
\* applied to the list docs
RECURSIVE CreatedAtSort(_)
CreatedAtSort(docs) ==
  IF docs = <<>> THEN <<>>
  ELSE CreatedAtInsert(CreatedAtSort(SubSeq(docs, 1, Len(docs) - 1)),
                       docs[Len(docs)])

\* loadEvents: getEventsByGame resolved with the documents in order docs
loadEventsResolveFrom(i, docs) ==
  /\ tasks[i].kind = "load"
  /\ docs \in SnapshotOrders(EventsOfGame(tasks[i].gameId))
  /\ events' = CreatedAtSort(docs)
  /\ tasks' = Finished(i)
  /\ lastRet' = [op |-> "load", ok |-> TRUE]
  /\ UNCHANGED <<dbVars, games, currentGame, isLoading, error,
                 activeGameView, flowVars, nextId, failures, overlaps,
                 roundTrip>>
  /\ UNCHANGED authVars

\* a started game with a stored log
InitStoredLog ==
  /\ \E S \in StoredLogs("g1") :
       /\ dbEvents = S
       /\ dbGames = [g \in GameIds |->
                       Game(g, CountSet(S, HomeTeamOf(g)),
                            CountSet(S, AwayTeamOf(g)), "in_progress")]
       /\ games = dbGames
  /\ dbHistory = {}
  /\ currentGame = NoGame
  /\ events = <<>>
  /\ isLoading = FALSE
  /\ error = Null
  /\ activeGameView = NoGame
  /\ scoringTeamId = Null
  /\ assisterPlayerId = Null
  /\ tasks = <<>>
  /\ nextId = MaxStored + 1
  /\ failures = 0
  /\ overlaps = 0
  /\ lastRet = NoRet
  /\ roundTrip = NoRoundTrip
  /\ SignedIn

\* the game is opened and closed; its events are loaded each time
LoadOrderNext ==
  \/ Idle /\ \E g \in DOMAIN games : handleViewGame(g)
  \/ Idle /\ backToGames
  \/ \E i \in Slots :
       \E docs \in SnapshotOrders(EventsOfGame("g1")) :
         loadEventsResolveFrom(i, docs)

SpecLoadOrder == InitStoredLog /\ [][LoadOrderNext]_vars

\* e comes before f by createdAt, then by id
BeforeByCreatedAtThenId(e, f) ==
  e.createdAt < f.createdAt \/ (e.createdAt = f.createdAt /\ e.id < f.id)

\* C31: a loaded log is in createdAt order with equal createdAt in id order,
\* whatever order the documents were returned in.
C31_LoadOrderedByCreatedAtThenId ==
  (lastRet.op = "load" /\ lastRet.ok)
    => \A i, j \in DOMAIN events :
         i < j => BeforeByCreatedAtThenId(events[i], events[j])

\* ------------------------------------------------- ranking of statistics
\* the places where player id is met in the list evs: event k met as scorer
\* counts 2k, as assister 2k + 1 (the scorer of an event is handled first)
Encounters(evs, id) ==
  {2 * k : k \in {x \in DOMAIN evs : evs[x].scorerPlayerId = id}}
    \cup {2 * k + 1 :
            k \in {x \in DOMAIN evs :
                     id # Skip /\ evs[x].assisterPlayerId = id}}

FirstEncounter(evs, id) ==
  CHOOSE n \in Encounters(evs, id) : \A m \in Encounters(evs, id) : n <= m

\* C32: the returned statistics are in descending order of goals + assists,
\* and records with the same goals + assists are in the order in which
\* their players are first met in the event list.
C32_RankedByTotalThenEncounter ==
  lastRet.op = "stats" =>
    \A i, j \in DOMAIN lastRet.stats :
      i < j =>
        LET a == lastRet.stats[i]
            b == lastRet.stats[j]
        IN  /\ a.goals + a.assists >= b.goals + b.assists
            /\ a.goals + a.assists = b.goals + b.assists
                 => FirstEncounter(lastRet.events, a.playerId)
                      < FirstEncounter(lastRet.events, b.playerId)

\* C32 witness: statistics were returned in which two players have the same
\* total, and a record with a higher total was met later than both.
C32_Witness ==
  /\ lastRet.op = "stats"
  /\ Len(lastRet.stats) = 3
  /\ lastRet.stats[2].goals + lastRet.stats[2].assists
       = lastRet.stats[3].goals + lastRet.stats[3].assists
  /\ lastRet.stats[1].goals + lastRet.stats[1].assists
       > lastRet.stats[2].goals + lastRet.stats[2].assists
  /\ FirstEncounter(lastRet.events, lastRet.stats[1].playerId)
       > FirstEncounter(lastRet.events, lastRet.stats[2].playerId)

\* C33: among the players of its gender with the same goals + assists, the
\* MVP shown has the most goals, and among those with the same goals too it
\* is first by name.
C33_MVPTieBreak ==
  lastRet.op = "loadStats" =>
    \A gender \in Genders :
      LET mvp == lastRet.mvp[gender]
          stats == lastRet.stats
      IN  mvp # Undefined =>
            \A q \in {p \in Players : GenderOf(p) = gender} :
              TotalOf(stats, q) = TotalOf(stats, mvp) =>
                /\ StatOf(stats, mvp, "goals") >= StatOf(stats, q, "goals")
                /\ StatOf(stats, q, "goals") = StatOf(stats, mvp, "goals")
                     => NameRank(mvp) <= NameRank(q)

\* C33 witness: the male MVP shown has the same total as a player who is
\* before him by name, and more goals.
C33_Witness ==
  /\ lastRet.op = "loadStats"
  /\ \E q \in Players :
       /\ GenderOf(q) = "male" /\ q # lastRet.mvp["male"]
       /\ NameRank(q) < NameRank(lastRet.mvp["male"])
       /\ TotalOf(lastRet.stats, q) = TotalOf(lastRet.stats, lastRet.mvp["male"])
       /\ TotalOf(lastRet.stats, q) > 0
       /\ StatOf(lastRet.stats, q, "goals")
            < StatOf(lastRet.stats, lastRet.mvp["male"], "goals")

\* ------------------------------------------- updateGame and the score
\* the score fields of a copy of a game
ScoreOf(game) == <<game.homeScore, game.awayScore>>

\* C34: the step in which an updateGame call made by a progress button
\* returns changes the score in none of the copies of the game: the view,
\* the store's current game and the store's list of games.
C34_UpdateKeepsScores ==
  [][(\E i \in Slots : timeoutResolve(i)) =>
       /\ ScoreOf(activeGameView') = ScoreOf(activeGameView)
       /\ ScoreOf(currentGame') = ScoreOf(currentGame)
       /\ \A g \in DOMAIN games : ScoreOf(games'[g]) = ScoreOf(games[g])]_vars

\* C35: whenever the scoring view of an in-progress game is open and no
\* operation is in flight, the score of the page's view equals the score of
\* the store's current game.
C35_ViewScoreIsStoreScore ==
  (ScoringViewOpen /\ Idle) => ScoreOf(activeGameView) = ScoreOf(currentGame)

\* the ids of a list of events, in order
IdsOf(evs) == [k \in DOMAIN evs |-> evs[k].id]

\* C36: whenever there is a current game and no operation is in flight, the
\* held log lists exactly the stored events of that game, in their order.
C36_HeldLogIsStoredLog ==
  (currentGame # NoGame /\ Idle)
    => IdsOf(events) = IdsOf(getEventsByGame(currentGame.id))

\* ----------------------------------------------- Undo after a game switch
\* only loadEvents calls are in flight
OnlyLoadsInFlight == \A i \in DOMAIN tasks : tasks[i].kind = "load"

\* Two started games; the operator scores, goes back and opens the other
\* game; Undo can be tapped while the events of the opened game are still
\* loading, every other tap is made with nothing in flight; every awaited
\* call resolves.
SwitchGameNext ==
  \/ Idle /\ \E team \in Teams : selectTeam(team)
  \/ Idle /\ \E p \in Players \cup {Skip} : selectAssister(p)
  \/ Idle /\ \E g \in DOMAIN games : handleViewGame(g)
  \/ Idle /\ backToGames
  \/ Idle /\ \E p \in Players \cup {Skip} : handleScorePoint(p)
  \/ OnlyLoadsInFlight /\ handleUndo
  \/ \E i \in Slots : loadEventsResolve(i)
  \/ \E i \in Slots : addDocResolve(i)
  \/ \E i \in Slots : addUpdateDocResolve(i)
  \/ \E i \in Slots : addResolve(i)
  \/ \E i \in Slots : undoDeleteDocResolve(i)
  \/ \E i \in Slots : undoGetDocsResolve(i)
  \/ \E i \in Slots : undoUpdateDocResolve(i)
  \/ \E i \in Slots : undoResolve(i)

SpecSwitchGame == InitTwoGames /\ [][SwitchGameNext]_vars

\* C37: the event whose document an undoLastEvent call deletes belongs to
\* the game that was current when the call was made.
C37_UndoDeletesEventOfCurrentGame ==
  [][\A i \in Slots :
       undoDeleteDocResolve(i) => tasks[i].event.gameId = tasks[i].game.id]_vars

\* ------------------------------------------------- a step is always shown
\* Step 1 is rendered
StepOneShown == ScoringViewOpen /\ scoringTeamId = Null

\* Step 2 is rendered
StepTwoShown ==
  /\ ScoringViewOpen
  /\ scoringTeamId # Null /\ assisterPlayerId = Null /\ HasCurrentRoster

\* C38: whenever the scoring view of an in-progress game is open, one of
\* the three steps of the scoring flow is shown.
C38_FlowStepAvailable ==
  ScoringViewOpen => (StepOneShown \/ StepTwoShown \/ StepThreeShown)

\* ------------------------------------ history page: restore of an event
\* number of event documents created by scoring and restoring, at most
MaxEventIds == 3

\* entries of the history list that confirmUndo reverts by recreating the
\* event from its previousSnapshot
DeletedEventEntries ==
  {h \in dbHistory : /\ h.action = "delete" /\ h.entityType = "event"
                     /\ "previousSnapshot" \in DOMAIN h}

\* the CreateScoringEventData confirmUndo builds from the snapshot: team,
\* players and the homeScore / awayScore recorded with the deleted event
RestoreData(snapshot) ==
  ScoringEvent(nextId, snapshot.gameId, snapshot.teamId,
               snapshot.scorerPlayerId, snapshot.assisterPlayerId,
               snapshot.homeScore, snapshot.awayScore, nextId)

\* Undo dialog confirmed for a 'delete' / 'event' entry, up to the first
\* await (getGame).  The history page is shown, not a game.
confirmRestore(h) ==
  /\ Tap
  /\ activeGameView = NoGame
  /\ h \in DeletedEventEntries
  /\ nextId <= MaxEventIds
  /\ tasks' = Started([kind |-> "restore", pc |-> "getGame",
                       data |-> RestoreData(h.previousSnapshot),
                       game |-> NoGame])
  /\ nextId' = nextId + 1
  /\ overlaps' = Tapped
  /\ lastRet' = NoRet
  /\ roundTrip' = NoRoundTrip
  /\ UNCHANGED <<dbVars, storeVars, activeGameView, flowVars, failures>>
  /\ UNCHANGED authVars

\* confirmUndo: getGame(eventSnapshot.gameId) resolved; `if (game)`
restoreGetGame(i) ==
  /\ tasks[i].kind = "restore" /\ tasks[i].pc = "getGame"
  /\ tasks' = IF tasks[i].data.gameId \in DOMAIN dbGames
              THEN [tasks EXCEPT ![i].pc = "addDoc",
                                 ![i].game = dbGames[tasks[i].data.gameId]]
              ELSE Finished(i)
  /\ lastRet' = NoRet
  /\ UNCHANGED <<dbVars, storeVars, activeGameView, flowVars, nextId,
                 failures, overlaps, roundTrip>>
  /\ UNCHANGED authVars

\* createScoringEvent: addDoc(eventsRef, withTimestamps(data)) resolved
restoreAddDoc(i) ==
  /\ tasks[i].kind = "restore" /\ tasks[i].pc = "addDoc"
  /\ dbEvents' = dbEvents \cup {tasks[i].data}
  /\ tasks' = [tasks EXCEPT ![i].pc = "updateDoc"]
  /\ lastRet' = NoRet
  /\ UNCHANGED <<dbGames, dbHistory, storeVars, activeGameView, flowVars,
                 nextId, failures, overlaps, roundTrip>>
  /\ UNCHANGED authVars

\* createScoringEvent: updateDoc(doc(gamesRef, game.id), {...}) resolved
restoreUpdateDoc(i) ==
  /\ tasks[i].kind = "restore" /\ tasks[i].pc = "updateDoc"
  /\ dbGames' = [dbGames EXCEPT ![tasks[i].game.id] =
                   Merge(@, AddScoreUpdate(tasks[i].data, tasks[i].game))]
  /\ tasks' = [tasks EXCEPT ![i].pc = "history"]
  /\ lastRet' = NoRet
  /\ UNCHANGED <<dbEvents, dbHistory, storeVars, activeGameView, flowVars,
                 nextId, failures, overlaps, roundTrip>>
  /\ UNCHANGED authVars

\* createScoringEvent: createHistoryEntry resolved; confirmUndo returns
restoreResolve(i) ==
  /\ tasks[i].kind = "restore" /\ tasks[i].pc = "history"
  /\ dbHistory' = dbHistory \cup {HistoryEntry("create", tasks[i].data)}
  /\ tasks' = Finished(i)
  /\ lastRet' = [op |-> "restore", ok |-> TRUE]
  /\ UNCHANGED <<dbGames, dbEvents, storeVars, activeGameView, flowVars,
                 nextId, failures, overlaps, roundTrip>>
  /\ UNCHANGED authVars

\* The games page and the history page used in turn, with both kinds of
\* undo on the history page; the operator waits for every operation to
\* return and every awaited call resolves.
HistoryRestoreNext ==
  \/ HistoryPageNext
  \/ Idle /\ \E h \in dbHistory : confirmRestore(h)
  \/ \E i \in Slots : restoreGetGame(i)
  \/ \E i \in Slots : restoreAddDoc(i)
  \/ \E i \in Slots : restoreUpdateDoc(i)
  \/ \E i \in Slots : restoreResolve(i)

SpecHistoryRestore == Init /\ [][HistoryRestoreNext]_vars

\* C39: when an undo made on the history page has returned, the stored
\* score of every game equals the per-team counts of its stored events.
C39_HistoryUndoKeepsScore ==
  lastRet.op \in {"confirmUndo", "restore"}
    => \A g \in DOMAIN dbGames : StoredScoreMatchesLog(g)

\* ------------------------------------------------- GameStore.isLoading
\* a call of GameStore.updateGame or GameStore.deleteGame has set
\* isLoading = true and has not yet run its finally block
GameCallsInFlight ==
  \E i \in Slots : tasks[i].kind \in {"update", "timeout", "delete"}

\* C40: isLoading is true exactly while at least one of the store's game
\* calls is in flight, also when two such calls overlap.
C40_IsLoadingWhileInFlight == isLoading = GameCallsInFlight
====
